---- MODULE Spec2Model ----
(***************************************************************************)
(* A model of the lewton Vorbis decoder.                                   *)
(*                                                                         *)
(* Three specifications share the module:                                  *)
(*   Spec       the audio packet decoder and its overlap state             *)
(*              (audio.rs, capi.rs, inside_ogg.rs)                         *)
(*   SpecHuff   Huffman tree construction and codeword reading             *)
(*              (huffman_tree.rs, bitpacking.rs)                           *)
(*   SpecSetup  the setup header parser (header.rs)                        *)
(*                                                                         *)
(* Rust Option<T> values are sequences of length 0 (None) or 1 (Some).     *)
(* Vec indices are 0-based in the source and 1-based here: v[i] of the     *)
(* source is v[i + 1] of the model.                                        *)
(***************************************************************************)
EXTENDS Integers, Sequences, FiniteSets, TLC

VARIABLES
    \* ---- audio decoder (Spec) ----
    ident,        \* IdentHeader: audio_channels, blocksize_0, blocksize_1
    setup,        \* SetupHeader: modes
    pwr,          \* PreviousWindowRight.data of the decoder
    pkt,          \* the audio packet last handed to the decoder
    pwr_in,       \* pwr.data as it was when the last decode or reset started
    ret,          \* result of the last read_audio_packet_generic call
    count_ret,    \* result of get_decoded_sample_count on pkt
    since_reset,  \* "none": constructed, no call yet; "reset": just
                  \* reset; "first", "later": packets decoded since
    fresh_pwr,    \* pwr.data of a decoder constructed at the last reset
    fresh_ret,    \* what that decoder returned for pkt
    \* ---- Huffman trees (SpecHuff) ----
    h_lengths,    \* codebook_codeword_lengths given to load_from_array
    h_tree,       \* result of load_from_array
    h_inner,      \* the packet bytes under the BitpackCursor
    h_cur,        \* the BitpackCursor (bit_cursor, byte_cursor)
    h_ret,        \* result of the last read_huffman call
    \* ---- setup header (SpecSetup) ----
    s_pc,         \* the section read_header_setup is reading
    s_left,       \* records of that section still to read
    s_book_reads, \* the bytes read_book has read: residue, class, pass, val
    s_channels,   \* audio_channels passed to read_header_setup
    s_codebooks,  \* codebooks read so far
    s_floors,     \* floors read so far
    s_residues,   \* residues read so far
    s_mappings,   \* mappings read so far
    s_modes,      \* modes read so far
    s_ret,        \* result of read_header_setup
    \* ---- inverse coupling (SpecCouple) ----
    c_mapping,    \* Mapping: mapping_magnitudes, mapping_angles
    c_in,         \* residue_vectors as residue decode left them
    c_vectors,    \* residue_vectors
    c_done,       \* the inverse coupling loop has run
    \* ---- bit reader (SpecBits) ----
    b_inner,      \* the byte slice under the BitpackCursor
    b_cur,        \* the BitpackCursor (bit_cursor, byte_cursor)
    b_last,       \* the last read: its width, the cursor before it, its
                  \* result, and the result of its twin reader
    \* ---- residue decode (SpecResidue) ----
    r_resid,      \* the Residue passed to residue_packet_decode
    r_codebooks,  \* codebooks: codebook_dimensions, codebook_vq_lookup_vec
    r_flags,      \* do_not_decode_flag
    r_loop,       \* where the decode loop stands: phase, pass,
                  \* partition_count, k, vectors, classifications
    r_log,        \* every vec_v[..] += e done so far: <<index, e>>
    r_eop,        \* a read of the last step met the end of the packet
    r_ret,        \* result of residue_packet_decode
    \* ---- identification header (SpecIdent) ----
    i_packet,     \* the packet passed to read_header_ident
    i_ret,        \* result of read_header_ident
    \* ---- floor 1 neighbors (SpecNeighbor) ----
    n_v,          \* the list v
    n_ret,        \* the last call: function, x, result
    \* ---- OggStreamReader (SpecOgg) ----
    o_pck,        \* what the last read of the PacketReader yielded
    o_read,       \* number of packets read from the PacketReader so far
    o_rdr,        \* the OggStreamReader: state, skip_count, start_absgp,
                  \* cur_absgp, next_packet; None while none exists
    o_ret,        \* the last call: function, result, state before it
    \* ---- sample conversion (SpecSample) ----
    f_fl,         \* the float passed to from_float, in units of 1 / (32768 * SampleDen)
    f_ret,        \* result of from_float
    \* ---- lookup1_values (SpecLookup) ----
    l_entries,    \* codebook_entries
    l_dimensions, \* codebook_dimensions
    l_ret,        \* result of lookup1_values
    \* ---- window geometry (SpecWindow) ----
    w_block,      \* the block: blocksize_0, blocksize_1, mode_blockflag, window flags
    w_ret,        \* its windows, as read_audio_packet_generic and get_decoded_sample_count compute them
    \* ---- residue type 2 over whole blocks (SpecInterleave) ----
    d_call,       \* a call of residue_packet_decode for a residue of type 2: block size exponent, channels, flags, build, probe
    d_ret,        \* what the call returns
    \* ---- floor 0 (SpecFloorZero) ----
    z_call,       \* a floor of type 0 as read_floor returns it, the codebook's dimensions, the build
    z_ret,        \* what decoding the floor and computing its curve come to
    \* ---- pass books of a residue (SpecPassBook) ----
    p_pc,         \* what is read next: codebook, book, partition, done
    p_call,       \* the fields of the setup packet and the residue decoded with it
    p_codebooks,  \* codebooks read: codebook_dimensions, codebook_vq_lookup_vec
    p_book,       \* the ResidueBook read_book returned
    p_ret,        \* how the partition read, or the setup, ended
    \* ---- codeword lengths of a codebook (SpecLengths) ----
    k_call,       \* codebook_entries and the build
    k_loop,       \* step 3 of read_codebook: ordered, sparse, current_entry, current_length, the lengths pushed
    k_ret         \* the lengths given to load_from_array, or how reading them failed

audio_vars == <<ident, setup, pwr, pkt, pwr_in, ret, count_ret,
                since_reset, fresh_pwr, fresh_ret>>
huff_vars  == <<h_lengths, h_tree, h_inner, h_cur, h_ret>>
setup_vars == <<s_pc, s_left, s_book_reads, s_channels, s_codebooks, s_floors, s_residues,
                s_mappings, s_modes, s_ret>>
couple_vars == <<c_mapping, c_in, c_vectors, c_done>>
bits_vars == <<b_inner, b_cur, b_last>>
resid_vars == <<r_resid, r_codebooks, r_flags, r_loop, r_log, r_eop, r_ret>>
ident_vars == <<i_packet, i_ret>>
neighbor_vars == <<n_v, n_ret>>
ogg_vars == <<o_pck, o_read, o_rdr, o_ret>>
sample_vars == <<f_fl, f_ret>>
lookup_vars == <<l_entries, l_dimensions, l_ret>>
window_vars == <<w_block, w_ret>>
interleave_vars == <<d_call, d_ret>>
floorzero_vars == <<z_call, z_ret>>
passbook_vars == <<p_pc, p_call, p_codebooks, p_book, p_ret>>
lengths_vars == <<k_call, k_loop, k_ret>>
unit_vars == <<couple_vars, bits_vars, resid_vars, ident_vars, neighbor_vars,
               ogg_vars,
               sample_vars,
               lookup_vars,
               window_vars,
               interleave_vars,
               floorzero_vars,
               passbook_vars,
               lengths_vars>>
vars == <<audio_vars, huff_vars, setup_vars, unit_vars>>

None == <<>>
Some(x) == <<x>>

(***************************************************************************)
(* Bounds of the model.                                                    *)
(***************************************************************************)
MaxChannels == 2        \* audio_channels ranges over 1..MaxChannels
MaxModes == 3           \* setup.modes has 1..MaxModes entries
MaxPacketByte == 15     \* an audio packet is empty or one byte 0..MaxPacketByte

\* The legal block size exponents (read_header_ident) and the ones the
\* audio model draws the ident header from: both ends.
MinBlocksize == 6
MaxBlocksize == 13
BlocksizeExponents == {MinBlocksize, MaxBlocksize}

(***************************************************************************)
(* Integer helpers: Rust's fixed-width operators on naturals.              *)
(***************************************************************************)
Pow2(k) == 2 ^ k

Shr(x, k) == x \div Pow2(k)

\* x << k on an unsigned type of w bits: bits shifted out are dropped.
\* The bits that stay are cut off before the shift, so that no
\* intermediate value is wider than the result.
Shl(x, k, w) ==
    IF x = 0 \/ k >= w THEN 0
    ELSE IF w - k > 30 THEN x * Pow2(k)
    ELSE (x % Pow2(w - k)) * Pow2(k)

RECURSIVE BitAnd(_, _)
BitAnd(a, b) ==
    IF a = 0 \/ b = 0 THEN 0
    ELSE (a % 2) * (b % 2) + 2 * BitAnd(a \div 2, b \div 2)

RECURSIVE BitOr(_, _)
BitOr(a, b) ==
    IF a = 0 THEN b
    ELSE IF b = 0 THEN a
    ELSE (IF a % 2 = 1 \/ b % 2 = 1 THEN 1 ELSE 0) + 2 * BitOr(a \div 2, b \div 2)

RECURSIVE ilog(_)
ilog(val) == IF val = 0 THEN 0 ELSE 1 + ilog(val \div 2)

(***************************************************************************)
(* bitpacking.rs: the BitpackCursor.  A read returns                       *)
(* [ok, val, cur]: ok = FALSE is Err(()), with the cursor unchanged.       *)
(***************************************************************************)
BitpackCursor_new == [bit_cursor |-> 0, byte_cursor |-> 0]

mask_bits(num) ==
    BitOr(255 - Shl(255, num % 8, 8), IF num >= 8 THEN 255 ELSE 0)

\* a shift that does not wrap: no bit is kept for num = 0
bmask_bits_unwrapped(num) == Shr(255, 8 - num)

bmask_bits(num) == Shr(255, (8 - num) % 8)

ReadErr(cur) == [ok |-> FALSE, val |-> 0, cur |-> cur]
ReadOk(v, cur) == [ok |-> TRUE, val |-> v, cur |-> cur]

\* res |= (buf[i] as T) << cur_bit_cursor for i in from .. to - 1, the
\* shift growing by 8 with every octet
RECURSIVE OrOctets(_, _, _, _, _, _, _)
OrOctets(inner, base, i, to, res, shift, tbits) ==
    IF i >= to THEN res
    ELSE OrOctets(inner, base, i + 1, to,
                  BitOr(res, Shl(inner[base + i + 1], shift, tbits)),
                  shift + 8, tbits)

bpc_read_body(inner, cur, tbits, bitnum, octetnum) ==
    LET last_octet_partial == IF bitnum - octetnum * 8 > 0 THEN 1 ELSE 0
        octetnum_rounded_up == last_octet_partial + octetnum
        bit_cursor_after == (cur.bit_cursor + bitnum) % 8
        base == cur.byte_cursor
        res0 == Shr(inner[base + 1], cur.bit_cursor)
    IN  IF cur.bit_cursor + bitnum > 8 * octetnum_rounded_up
        THEN IF base + 1 + octetnum_rounded_up > Len(inner)
             THEN ReadErr(cur)
             ELSE LET res1 == OrOctets(inner, base, 1, octetnum_rounded_up,
                                       res0, 8 - cur.bit_cursor, tbits)
                      shift == 8 - cur.bit_cursor + 8 * (octetnum_rounded_up - 1)
                      last_bits == BitAnd(inner[base + octetnum_rounded_up + 1],
                                          mask_bits(bit_cursor_after))
                  IN  ReadOk(BitOr(res1, Shl(last_bits, shift, tbits)),
                             [byte_cursor |-> base + octetnum_rounded_up,
                              bit_cursor |-> bit_cursor_after])
        ELSE IF base + octetnum_rounded_up > Len(inner)
             THEN ReadErr(cur)
             ELSE LET res1 == IF bitnum <= 8
                              THEN BitAnd(res0, mask_bits(bitnum))
                              ELSE res0
                      res2 == OrOctets(inner, base, 1, octetnum_rounded_up - 1,
                                       res1, 8 - cur.bit_cursor, tbits)
                      shift == 8 - cur.bit_cursor
                                 + 8 * (IF octetnum_rounded_up >= 2
                                        THEN octetnum_rounded_up - 2 ELSE 0)
                      res3 == IF bitnum > 8
                              THEN BitOr(res2,
                                     Shl(BitAnd(inner[base + octetnum_rounded_up],
                                                bmask_bits(bit_cursor_after)),
                                         shift, tbits))
                              ELSE res2
                  IN  ReadOk(res3,
                             [byte_cursor |-> base + octetnum
                                 + (IF cur.bit_cursor = 8 - (bitnum % 8) THEN 1 ELSE 0),
                              bit_cursor |-> bit_cursor_after])

bpc_peek_body(inner, cur, tbits, bitnum, octetnum) ==
    LET r == bpc_read_body(inner, cur, tbits, bitnum, octetnum)
    IN  [r EXCEPT !.cur = cur]

bpc_advance_body(cur, bitnum, octetnum) ==
    LET last_octet_partial == IF bitnum - octetnum * 8 > 0 THEN 1 ELSE 0
        octetnum_rounded_up == last_octet_partial + octetnum
        bit_cursor_after == (cur.bit_cursor + bitnum) % 8
    IN  IF cur.bit_cursor + bitnum > 8 * octetnum_rounded_up
        THEN [byte_cursor |-> cur.byte_cursor + octetnum_rounded_up,
              bit_cursor |-> bit_cursor_after]
        ELSE [byte_cursor |-> cur.byte_cursor + octetnum
                  + (IF cur.bit_cursor = 8 - (bitnum % 8) THEN 1 ELSE 0),
              bit_cursor |-> bit_cursor_after]

read_u1(inner, cur) == bpc_read_body(inner, cur, 8, 1, 0)

\* Ok(try!(self.read_u1()) == 1)
bit_flag_of(r) == [ok |-> r.ok, val |-> (r.ok /\ r.val = 1), cur |-> r.cur]

read_bit_flag(inner, cur) == bit_flag_of(read_u1(inner, cur))

read_dyn_u8(inner, cur, bit_num) ==
    IF bit_num = 0 THEN ReadOk(0, cur)
    ELSE bpc_read_body(inner, cur, 8, bit_num, bit_num \div 8)

peek_u8(inner, cur) == bpc_peek_body(inner, cur, 8, 8, 1)

advance_dyn_u8(cur, bit_num) ==
    IF bit_num = 0 THEN cur
    ELSE bpc_advance_body(cur, bit_num, bit_num \div 8)

(***************************************************************************)
(* audio.rs: one audio packet.                                             *)
(*                                                                         *)
(* A packet is [data, floor, residue].  data holds the bytes the framing   *)
(* fields are read from.  The bits behind the framing are not spelled out: *)
(* floor and residue name what they make floor_decode and                  *)
(* residue_packet_decode meet.                                             *)
(*   floor   "Decoded"            every channel's floor decodes or is      *)
(*                                unused (end of packet included)          *)
(*           "PacketUndecodable"  a floor-0 book number outside the book   *)
(*                                list, or a codebook without VQ lookup    *)
(*   residue "Decoded"            residue decode returns Ok (end of packet *)
(*                                included)                                *)
(*           "Err"                the classbook has 0 dimensions           *)
(* A vector of floats (a channel of decoded samples, a channel of          *)
(* PreviousWindowRight.data) is described by its length.                   *)
(***************************************************************************)
U16(x) == x % 65536

PreviousWindowRight_new == None

is_empty(data) == data = None

FloorEvents == {"Decoded", "PacketUndecodable"}
ResidueEvents == {"Decoded", "Err"}

\* floor_decode: Err(()) exactly when a channel's floor is PacketUndecodable
floor_decode(packet) ==
    IF packet.floor = "PacketUndecodable" THEN [ok |-> FALSE] ELSE [ok |-> TRUE]

\* residue_packet_decode: Err(()) when classwords_per_codeword is 0
residue_packet_decode(packet) ==
    IF packet.residue = "Err" THEN [ok |-> FALSE] ELSE [ok |-> TRUE]

\* impl From<()> for AudioReadError
AudioReadError_from_unit == "EndOfPacket"

CountOk(n) == [kind |-> "Ok", err |-> "", count |-> n]
CountErr(e) == [kind |-> "Err", err |-> e, count |-> 0]
CountPanic == [kind |-> "Panic", err |-> "index out of bounds", count |-> 0]

\* previous_next_window_flag: Some((prev, next)) read for a long block,
\* None for a short one
window_flags_pair(cur, p, q) ==
    IF ~q.ok THEN [ok |-> FALSE, val |-> None, cur |-> cur]
    ELSE [ok |-> TRUE, val |-> Some(<<p.val, q.val>>), cur |-> q.cur]

window_flags_next(data, cur, p) ==
    IF ~p.ok THEN [ok |-> FALSE, val |-> None, cur |-> cur]
    ELSE window_flags_pair(cur, p, read_bit_flag(data, p.cur))

read_window_flags(data, cur, mode) ==
    IF mode.mode_blockflag
    THEN window_flags_next(data, cur, read_bit_flag(data, cur))
    ELSE [ok |-> TRUE, val |-> None, cur |-> cur]

\* the left window of get_decoded_sample_count
count_left_window(id, mode, flag, n) ==
    IF flag = None \/ flag[1][1]
    THEN [start |-> 0, end |-> Shr(n, 1), n |-> Shr(n, 1),
          use_bs1 |-> mode.mode_blockflag]
    ELSE LET bs_0_exp == U16(Pow2(id.blocksize_0))
         IN  [start |-> Shr(U16(n - bs_0_exp), 2),
              end |-> Shr(U16(n + bs_0_exp), 2),
              n |-> Shr(bs_0_exp, 1), use_bs1 |-> FALSE]

\* count_right_window taking every block for one followed by a long block
count_right_window_no_flag(id, mode, flag, n) ==
    [start |-> Shr(n, 1), end |-> n]

\* the right window of get_decoded_sample_count
count_right_window(id, mode, flag, n) ==
    IF flag = None \/ flag[1][2]
    THEN [start |-> Shr(n, 1), end |-> n]
    ELSE LET bs_0_exp == U16(Pow2(id.blocksize_0))
         IN  [start |-> Shr(U16(U16(n * 3) - bs_0_exp), 2),
              end |-> Shr(U16(U16(n * 3) + bs_0_exp), 2)]

\* get_decoded_sample_count, in the order of its statements: the packet
\* type bit, the mode number, the window flags, the window geometry
count_geometry(lw, rw) ==
    IF rw.start < lw.start THEN CountPanic
    ELSE CountOk(rw.start - lw.start)

count_windows(id, mode, n, fl) ==
    IF ~fl.ok THEN CountErr(AudioReadError_from_unit)
    ELSE count_geometry(count_left_window(id, mode, fl.val, n),
                        count_right_window(id, mode, fl.val, n))

count_flags(id, mode, packet, cur) ==
    count_windows(id, mode,
        U16(Pow2(IF mode.mode_blockflag THEN id.blocksize_1
                 ELSE id.blocksize_0)),
        read_window_flags(packet.data, cur, mode))

\* let mode = &setup.modes[mode_number as usize]
count_mode(id, su, packet, mn) ==
    IF ~mn.ok THEN CountErr(AudioReadError_from_unit)
    ELSE IF mn.val >= Len(su.modes) THEN CountPanic
    ELSE count_flags(id, su.modes[mn.val + 1], packet, mn.cur)

count_packet_type(id, su, packet, hdr) ==
    IF ~hdr.ok THEN CountErr(AudioReadError_from_unit)
    ELSE IF hdr.val THEN CountErr("AudioIsHeader")
    ELSE count_mode(id, su, packet,
            read_dyn_u8(packet.data, hdr.cur, ilog(Len(su.modes) - 1)))

get_decoded_sample_count(id, su, packet) ==
    count_packet_type(id, su, packet,
        read_bit_flag(packet.data, BitpackCursor_new))

\* a left window that always selects the window slope of blocksize_1
left_window_long_slope(id, mode, flag, n) ==
    [count_left_window(id, mode, flag, n) EXCEPT !.use_bs1 = TRUE]

\* the left window of read_audio_packet_generic
left_window(id, mode, flag, n) ==
    IF flag = None \/ flag[1][1]
    THEN [start |-> 0, end |-> Shr(n, 1), n |-> Shr(n, 1),
          use_bs1 |-> mode.mode_blockflag]
    ELSE LET bs_0_exp == U16(Pow2(id.blocksize_0))
         IN  [start |-> Shr(U16(n - bs_0_exp), 2),
              end |-> Shr(U16(n + bs_0_exp), 2),
              n |-> Shr(bs_0_exp, 1), use_bs1 |-> FALSE]

\* a right window that takes every block for one followed by a long block
right_window_half(id, mode, flag, n) == [start |-> Shr(n, 1), end |-> n]

\* the right window of read_audio_packet_generic
right_window(id, mode, flag, n) ==
    IF flag = None \/ flag[1][2]
    THEN [start |-> Shr(n, 1), end |-> n]
    ELSE LET bs_0_exp == U16(Pow2(id.blocksize_0))
         IN  [start |-> Shr(U16(U16(n * 3) - bs_0_exp), 2),
              end |-> Shr(U16(U16(n * 3) + bs_0_exp), 2)]

\* CachedBlocksizeDerived::from_blocksize: window_slope.len()
window_slope_len(bs) == Shr(U16(Pow2(bs)), 1)

\* stage: how far the call got ("framing", "floor", "residue", "overlap",
\* "done"); pwr: PreviousWindowRight.data when the call returns.
AudioOk(samples, data) ==
    [kind |-> "Ok", err |-> "", samples |-> samples, pwr |-> data,
     stage |-> "done"]
AudioErr(e, data, stage) ==
    [kind |-> "Err", err |-> e, samples |-> <<>>, pwr |-> data,
     stage |-> stage]
AudioPanic(data, stage) ==
    [kind |-> "Panic", err |-> "", samples |-> <<>>, pwr |-> data,
     stage |-> stage]

\* chan[right_win_start .. right_win_end]
future_prev_half(rw) == rw.end - rw.start

\* the overlap-add branch: pwr.data was Some(prev_data) and has been taken
overlap_add(id, prev_data, n, lw, rw) ==
    LET win_slope ==
            window_slope_len(IF lw.use_bs1 THEN id.blocksize_1
                             ELSE id.blocksize_0)
        chans == 1..id.audio_channels
    IN  IF id.audio_channels # Len(prev_data)
        THEN AudioPanic(None, "overlap")
        ELSE IF \E c \in chans : win_slope < prev_data[c]
        THEN AudioErr("AudioBadFormat", None, "overlap")
        ELSE IF \E c \in chans : lw.start + prev_data[c] > n
        THEN AudioPanic(None, "overlap")
        ELSE IF rw.end > n \/ rw.start > rw.end \/ rw.start < lw.start
        THEN AudioPanic(None, "overlap")
        ELSE AudioOk([c \in chans |-> rw.start - lw.start],
                     Some([c \in chans |-> future_prev_half(rw)]))

\* prime_overlap without chan.truncate(0): the block is returned whole
prime_overlap_untruncated(id, n, rw) ==
    AudioOk([c \in 1..id.audio_channels |-> n],
            Some([c \in 1..id.audio_channels |-> future_prev_half(rw)]))

\* the branch without previous data: the whole packet is discarded
prime_overlap(id, n, rw) ==
    LET chans == 1..id.audio_channels
    IN  IF rw.end > n \/ rw.start > rw.end
        THEN AudioPanic(None, "overlap")
        ELSE AudioOk([c \in chans |-> 0],
                     Some([c \in chans |-> future_prev_half(rw)]))

\* read_audio_packet_generic, in the order of its statements
audio_overlap(id, data, n, lw, rw) ==
    IF data # None
    THEN overlap_add(id, data[1], n, lw, rw)
    ELSE prime_overlap(id, n, rw)

audio_body(id, mode, packet, data, n, fl) ==
    IF ~fl.ok THEN AudioErr(AudioReadError_from_unit, data, "framing")
    ELSE IF ~floor_decode(packet).ok
    THEN AudioErr(AudioReadError_from_unit, data, "floor")
    ELSE IF ~residue_packet_decode(packet).ok
    THEN AudioErr("AudioBadFormat", data, "residue")
    ELSE audio_overlap(id, data, n, left_window(id, mode, fl.val, n),
                       right_window(id, mode, fl.val, n))

audio_flags(id, mode, packet, data, cur) ==
    audio_body(id, mode, packet, data,
        U16(Pow2(IF mode.mode_blockflag THEN id.blocksize_1
                 ELSE id.blocksize_0)),
        read_window_flags(packet.data, cur, mode))

\* audio_mode indexing setup.modes directly, as get_decoded_sample_count
\* does
audio_mode_indexing(id, su, packet, data, mn) ==
    IF ~mn.ok THEN AudioErr(AudioReadError_from_unit, data, "framing")
    ELSE IF mn.val >= Len(su.modes) THEN AudioPanic(data, "framing")
    ELSE audio_flags(id, su.modes[mn.val + 1], packet, data, mn.cur)

\* setup.modes.get(mode_number as usize)
audio_mode(id, su, packet, data, mn) ==
    IF ~mn.ok THEN AudioErr(AudioReadError_from_unit, data, "framing")
    ELSE IF mn.val >= Len(su.modes)
    THEN AudioErr("AudioBadFormat", data, "framing")
    ELSE audio_flags(id, su.modes[mn.val + 1], packet, data, mn.cur)

audio_packet_type(id, su, packet, data, hdr) ==
    IF ~hdr.ok THEN AudioErr(AudioReadError_from_unit, data, "framing")
    ELSE IF hdr.val THEN AudioErr("AudioIsHeader", data, "framing")
    ELSE audio_mode(id, su, packet, data,
            read_dyn_u8(packet.data, hdr.cur, ilog(Len(su.modes) - 1)))

read_audio_packet_generic(id, su, packet, data) ==
    audio_packet_type(id, su, packet, data,
        read_bit_flag(packet.data, BitpackCursor_new))

(***************************************************************************)
(* huffman_tree.rs: building a VorbisHuffmanTree.                          *)
(*                                                                         *)
(* A HuffTree node is [even_childs, payload, l, r] with Option fields.     *)
(* A u32 of desc_prog is [bit31, low]: bit 31, which marks a node with     *)
(* children, and the 31 bits below it.                                     *)
(***************************************************************************)
HuffTree_new == [even_childs |-> TRUE, payload |-> None, l |-> None, r |-> None]

InsertResult(ok, t) == [ok |-> ok, t |-> t]

\* self.even_childs after a successful insertion into the left branch
even_after_left_only(left, r) == left.even_childs

even_after_left(left, r) ==
    left.even_childs /\ (IF r # None THEN r[1].even_childs ELSE FALSE)

RECURSIVE insert_rec(_, _, _)

\* the even_childs branch with no left child: the new node takes it
insert_new_left(t, nn) ==
    InsertResult(TRUE, [t EXCEPT !.l = Some(nn.t), !.even_childs = FALSE])

\* the right branch took (or refused) the entry
insert_right_done(t, left, rr) ==
    InsertResult(rr.ok,
        [t EXCEPT !.l = Some(left), !.r = Some(rr.t),
                  !.even_childs = left.even_childs /\ rr.t.even_childs])

insert_right(t, left, payload, depth) ==
    IF t.r # None
    THEN insert_right_done(t, left, insert_rec(t.r[1], payload, depth - 1))
    ELSE insert_right_done(t, left,
            insert_rec(HuffTree_new, payload, depth - 1))

\* tl: what left.insert_rec returned
insert_left_tried(t, payload, depth, tl) ==
    IF tl.ok
    THEN InsertResult(TRUE,
            [t EXCEPT !.l = Some(tl.t),
                      !.even_childs = even_after_left(tl.t, t.r)])
    ELSE insert_right(t, tl.t, payload, depth)

insert_rec(t, payload, depth) ==
    IF t.payload # None THEN InsertResult(FALSE, t)
    ELSE IF depth = 0
    THEN IF ~(t.l = None /\ t.r = None) THEN InsertResult(FALSE, t)
         ELSE InsertResult(TRUE, [t EXCEPT !.payload = Some(payload)])
    ELSE IF t.even_childs
    THEN IF t.l # None THEN InsertResult(FALSE, t)
         ELSE insert_new_left(t, insert_rec(HuffTree_new, payload, depth - 1))
    ELSE IF ~t.l[1].even_childs
    THEN insert_left_tried(t, payload, depth,
            insert_rec(t.l[1], payload, depth - 1))
    ELSE insert_right(t, t.l[1], payload, depth)

\* the loop of load_from_array over the codeword lengths; b holds
\* simple_tree, cnt, last_valid_idx and whether an insertion failed
RECURSIVE load_entries(_, _, _)

load_inserted(lengths, i, b, ins) ==
    IF ~ins.ok
    THEN [b EXCEPT !.tree = ins.t, !.cnt = b.cnt + 1,
                   !.last_valid_idx = Some(i - 1), !.overspecified = TRUE]
    ELSE load_entries(lengths, i + 1,
            [b EXCEPT !.tree = ins.t, !.cnt = b.cnt + 1,
                      !.last_valid_idx = Some(i - 1)])

load_entries(lengths, i, b) ==
    IF i > Len(lengths) THEN b
    ELSE IF lengths[i] = 0 THEN load_entries(lengths, i + 1, b)
    ELSE load_inserted(lengths, i, b, insert_rec(b.tree, i - 1, lengths[i]))

U32(bit31, low) == [bit31 |-> bit31, low |-> low]

\* fn traverse: returns cur_pos and the grown desc_prog; panic is an unwrap
\* of a missing child
TraverseOk(pos, prog) == [panic |-> FALSE, pos |-> pos, prog |-> prog]
TraversePanic == [panic |-> TRUE, pos |-> 0, prog |-> <<>>]

RECURSIVE traverse(_, _)

traverse_right(cur_pos, rt) ==
    IF rt.panic THEN TraversePanic
    ELSE TraverseOk(cur_pos,
            [rt.prog EXCEPT ![cur_pos + 3] = U32(FALSE, rt.pos)])

traverse_left(tree, cur_pos, lt) ==
    IF lt.panic THEN TraversePanic
    ELSE IF tree.r = None THEN TraversePanic
    ELSE traverse_right(cur_pos,
            traverse(tree.r[1],
                [lt.prog EXCEPT ![cur_pos + 2] = U32(FALSE, lt.pos)]))

traverse(tree, desc_prog) ==
    LET cur_pos == Len(desc_prog)
        has_children == tree.l # None \/ tree.r # None
        entry == U32(has_children,
                     IF tree.payload # None THEN tree.payload[1] ELSE 0)
    IN  IF ~has_children THEN TraverseOk(cur_pos, Append(desc_prog, entry))
        ELSE IF tree.l = None THEN TraversePanic
        ELSE traverse_left(tree, cur_pos,
                traverse(tree.l[1],
                    desc_prog \o <<entry, U32(FALSE, 0), U32(FALSE, 0)>>))

\* UnrolledLookupEntry
HasEntry(cnt_to_remove, payload) ==
    [tag |-> "HasEntry", a |-> cnt_to_remove, b |-> payload]
InconclusiveWithHint(hint) ==
    [tag |-> "InconclusiveWithHint", a |-> hint, b |-> 0]
Inconclusive == [tag |-> "Inconclusive", a |-> 0, b |-> 0]

U8Max == 255

\* a fill that writes the whole table for every leaf
leaf_fill_every(prefix, prefix_idx) == 0 .. U8Max

\* the indices the leaf branch of uroll_traverse writes: the loop
\* for _ in 1 .. (1 << (8 - prefix_idx)) steps i by 1 << prefix_idx
leaf_fill(prefix, prefix_idx) ==
    { prefix + k * Pow2(prefix_idx) : k \in 0 .. (Pow2(8 - prefix_idx) - 2) }

UrollOk(entries) == [panic |-> FALSE, entries |-> entries]
UrollPanic == [panic |-> TRUE, entries |-> <<>>]

RECURSIVE uroll_traverse(_, _, _, _, _, _)

uroll_right(tree, lu, prefix, prefix_idx, desc_prog, desc_prog_idx) ==
    IF lu.panic \/ tree.r = None THEN UrollPanic
    ELSE uroll_traverse(tree.r[1], lu.entries,
            prefix + Pow2(prefix_idx), prefix_idx + 1,
            desc_prog, desc_prog[desc_prog_idx + 3].low)

uroll_traverse(tree, unrolled_entries, prefix, prefix_idx, desc_prog, desc_prog_idx) ==
    IF tree.l # None \/ tree.r # None
    THEN IF prefix_idx = 8
         THEN UrollOk([unrolled_entries EXCEPT
                          ![prefix] = InconclusiveWithHint(desc_prog_idx)])
         ELSE IF tree.l = None THEN UrollPanic
         ELSE uroll_right(tree,
                 uroll_traverse(tree.l[1], unrolled_entries,
                     prefix, prefix_idx + 1,
                     desc_prog, desc_prog[desc_prog_idx + 2].low),
                 prefix, prefix_idx, desc_prog, desc_prog_idx)
    ELSE IF tree.payload = None THEN UrollPanic
    ELSE UrollOk([i \in 0 .. U8Max |->
                    IF i \in leaf_fill(prefix, prefix_idx)
                    THEN HasEntry(prefix_idx, tree.payload[1])
                    ELSE unrolled_entries[i]])

\* Result<VorbisHuffmanTree, HuffmanError>, or a panic
HuffOk(desc_prog, unrolled_entries) ==
    [kind |-> "Ok", desc_prog |-> desc_prog,
     unrolled_entries |-> unrolled_entries]
HuffErr(e) == [kind |-> e, desc_prog |-> <<>>, unrolled_entries |-> <<>>]

load_unrolled(b, desc_prog, u) ==
    IF u.panic THEN HuffErr("Panic") ELSE HuffOk(desc_prog, u.entries)

load_traversed(b, tr) ==
    IF tr.panic THEN HuffErr("Panic")
    ELSE IF b.cnt > 0
    THEN load_unrolled(b, tr.prog,
            uroll_traverse(b.tree, [i \in 0 .. U8Max |-> Inconclusive],
                           0, 0, tr.prog, 0))
    ELSE HuffOk(tr.prog, [i \in 0 .. U8Max |-> Inconclusive])

load_built(lengths, b) ==
    IF b.overspecified THEN HuffErr("Overspecified")
    ELSE IF b.cnt = 1
    THEN LET decoded == b.last_valid_idx[1]
         IN  IF lengths[decoded + 1] = 1
             THEN HuffOk(<<U32(TRUE, 0), U32(FALSE, 3), U32(FALSE, 3),
                           U32(FALSE, decoded)>>,
                         [i \in 0 .. U8Max |-> HasEntry(1, decoded)])
             ELSE HuffErr("InvalidSingleEntry")
    ELSE IF ~b.tree.even_childs THEN HuffErr("Underpopulated")
    ELSE load_traversed(b, traverse(b.tree, <<>>))

load_from_array(codebook_codeword_lengths) ==
    load_built(codebook_codeword_lengths,
        load_entries(codebook_codeword_lengths, 1,
            [tree |-> HuffTree_new, cnt |-> 0, last_valid_idx |-> None,
             overspecified |-> FALSE]))

\* PeekedDataLookupResult: Iter(advance, iterator at pos) or
\* PayloadFound(advance, payload)
lookup_peeked_data(tree, bit_count, peeked_data) ==
    LET e == tree.unrolled_entries[peeked_data]
    IN  IF e.tag = "HasEntry" /\ e.a <= bit_count
        THEN [kind |-> "PayloadFound", advance |-> e.a, payload |-> e.b, pos |-> 0]
        ELSE IF e.tag = "InconclusiveWithHint"
        THEN [kind |-> "Iter", advance |-> 8, payload |-> 0, pos |-> e.a]
        ELSE [kind |-> "Iter", advance |-> 0, payload |-> 0, pos |-> 0]

\* VorbisHuffmanIter::next: [kind, val, pos]; "Panic" is an index outside
\* desc_prog
IterPanic == [kind |-> "Panic", val |-> 0, pos |-> 0]

iter_child(desc_prog, new_pos) ==
    IF new_pos >= Len(desc_prog) THEN IterPanic
    ELSE IF desc_prog[new_pos + 1].bit31
    THEN [kind |-> "None", val |-> 0, pos |-> new_pos]
    ELSE [kind |-> "Some", val |-> desc_prog[new_pos + 1].low, pos |-> 0]

VorbisHuffmanIter_next(desc_prog, pos, bit) ==
    LET i == pos + 1 + (IF bit THEN 1 ELSE 0)
    IN  IF i >= Len(desc_prog) THEN IterPanic
        ELSE iter_child(desc_prog, desc_prog[i + 1].low)

\* read_huffman: [kind, val, cur] with kind "Ok", "Err" or "Panic"
HuffRead(kind, val, cur) == [kind |-> kind, val |-> val, cur |-> cur]

RECURSIVE read_huffman_loop(_, _, _, _)

read_huffman_step(inner, b, tree, nx) ==
    IF nx.kind = "Panic" THEN HuffRead("Panic", 0, b.cur)
    ELSE IF nx.kind = "Some" THEN HuffRead("Ok", nx.val, b.cur)
    ELSE read_huffman_loop(inner, b.cur, tree, nx.pos)

read_huffman_bit(inner, b, tree, pos) ==
    IF ~b.ok THEN HuffRead("Err", 0, b.cur)
    ELSE read_huffman_step(inner, b, tree,
            VorbisHuffmanIter_next(tree.desc_prog, pos, b.val))

read_huffman_loop(inner, cur, tree, pos) ==
    read_huffman_bit(inner, read_bit_flag(inner, cur), tree, pos)

read_huffman_peeked(inner, cur, tree, lk) ==
    IF lk.kind = "PayloadFound"
    THEN HuffRead("Ok", lk.payload, advance_dyn_u8(cur, lk.advance))
    ELSE read_huffman_loop(inner, advance_dyn_u8(cur, lk.advance), tree, lk.pos)

read_huffman(inner, cur, tree) ==
    LET data == peek_u8(inner, cur)
    IN  IF data.ok
        THEN read_huffman_peeked(inner, cur, tree,
                lookup_peeked_data(tree, 8, data.val))
        ELSE read_huffman_loop(inner, cur, tree, 0)

(***************************************************************************)
(* header.rs: the records of the setup header.  What a read takes from     *)
(* the packet is an argument of the operator that models it.  A record     *)
(* keeps the fields that hold an index into another list of the header.    *)
(***************************************************************************)
HeaderOk(v) == [ok |-> TRUE, err |-> "", val |-> v]
HeaderErr(e) == [ok |-> FALSE, err |-> e, val |-> <<>>]

SyncPattern == 5653314      \* 0x564342

HasBit(vals_used, i) == (vals_used \div Pow2(i)) % 2 = 1

\* read_header_begin: res is the first byte, is_vorbis the comparison of
\* the six bytes behind it
read_header_begin(res, is_vorbis) ==
    IF res % 2 = 0 THEN HeaderErr("HeaderIsAudio")
    ELSE IF ~is_vorbis THEN HeaderErr("NotVorbisHeader")
    ELSE HeaderOk(res)

\* read_codebook: the codebook keeps whether it has a VQ lookup
read_codebook(sync_pattern, codebook_codeword_lengths, codebook_lookup_type) ==
    IF sync_pattern # SyncPattern THEN HeaderErr("HeaderBadFormat")
    ELSE IF codebook_lookup_type > 2 THEN HeaderErr("HeaderBadFormat")
    ELSE IF load_from_array(codebook_codeword_lengths).kind # "Ok"
    THEN HeaderErr("HeaderBadFormat")
    ELSE HeaderOk([codebook_vq_lookup_vec |->
                      IF codebook_lookup_type = 0 THEN None ELSE Some("vq")])

\* floor type 0: the loop over floor0_number_of_books book numbers
book_list_ok(floor0_book_list, codebook_cnt) ==
    \A i \in 1 .. Len(floor0_book_list) : ~(floor0_book_list[i] > codebook_cnt)

read_floor0(floor0_book_list, codebook_cnt) ==
    IF ~book_list_ok(floor0_book_list, codebook_cnt)
    THEN HeaderErr("HeaderBadFormat")
    ELSE HeaderOk([floor_type |-> 0, floor0_book_list |-> floor0_book_list])

\* floor type 1.  classes[c] is what the class loop reads for class c - 1:
\* [subclass, masterbook, books], books being the raw bytes of the
\* subclass books
maximum_class(floor1_partition_class_list) ==
    IF floor1_partition_class_list = <<>> THEN -1
    ELSE CHOOSE m \in { floor1_partition_class_list[i] :
                          i \in 1 .. Len(floor1_partition_class_list) } :
            \A i \in 1 .. Len(floor1_partition_class_list) :
                floor1_partition_class_list[i] <= m

class_ok(class, codebook_cnt) ==
    /\ class.subclass # 0 => ~(class.masterbook >= codebook_cnt)
    /\ \A i \in 1 .. Len(class.books) : ~(class.books[i] - 1 >= codebook_cnt)

\* floor1_x_list: 0, 1 << rangebits and the values read for the partitions
floor1_x_list(rangebits, x_values) == <<0, Pow2(rangebits)>> \o x_values

x_list_unique(x_list) ==
    \A i, j \in 1 .. Len(x_list) : i # j => x_list[i] # x_list[j]

read_floor1(floor1_partition_class_list, classes, rangebits, x_values, codebook_cnt) ==
    IF \E c \in 1 .. Len(classes) : ~class_ok(classes[c], codebook_cnt)
    THEN HeaderErr("HeaderBadFormat")
    ELSE IF Len(floor1_x_list(rangebits, x_values)) > 65
    THEN HeaderErr("HeaderBadFormat")
    ELSE IF ~x_list_unique(floor1_x_list(rangebits, x_values))
    THEN HeaderErr("HeaderBadFormat")
    ELSE HeaderOk(
        [floor_type |-> 1,
         floor1_partition_class |-> floor1_partition_class_list,
         floor1_class_subclasses |->
            [c \in 1 .. Len(classes) |-> classes[c].subclass],
         floor1_class_masterbooks |->
            [c \in 1 .. Len(classes) |->
                IF classes[c].subclass # 0 THEN classes[c].masterbook ELSE 0],
         floor1_subclass_books |->
            [c \in 1 .. Len(classes) |->
                [i \in 1 .. Len(classes[c].books) |-> classes[c].books[i] - 1]]])

\* ResidueBook::read_book.  entries[i] is the byte the packet holds for
\* pass i.  The result carries the passes a byte was read for.
ReadPasses(vals_used) == { i \in 0 .. 6 : HasBit(vals_used, i) }

book_entry_ok(val_entry, codebooks) ==
    /\ val_entry < Len(codebooks)
    /\ codebooks[val_entry + 1].codebook_vq_lookup_vec # None

read_book(vals_used, entries, codebooks) ==
    IF \E i \in ReadPasses(vals_used) : ~book_entry_ok(entries[i], codebooks)
    THEN HeaderErr("HeaderBadFormat")
    ELSE HeaderOk([vals_used |-> vals_used,
                   val_i |-> [i \in 1 .. 8 |->
                                IF i - 1 \in ReadPasses(vals_used)
                                THEN entries[i - 1] ELSE 0]])

ResidueBook_get_val(book, i) ==
    IF HasBit(book.vals_used, i) THEN Some(book.val_i[i + 1]) ELSE None

\* (high_bits << 3) | low_bits
cascade_entry(low_bits, bitflag, high_bits) ==
    (IF bitflag THEN high_bits ELSE 0) * 8 + low_bits

read_residue(residue_type, residue_begin, residue_end, residue_classbook, residue_cascade, entries, codebooks) ==
    IF residue_type > 2 THEN HeaderErr("HeaderBadFormat")
    ELSE IF residue_begin > residue_end THEN HeaderErr("HeaderBadFormat")
    ELSE IF \E c \in 1 .. Len(residue_cascade) :
                ~read_book(residue_cascade[c], entries[c], codebooks).ok
    THEN HeaderErr("HeaderBadFormat")
    ELSE IF residue_classbook >= Len(codebooks)
    THEN HeaderErr("HeaderBadFormat")
    ELSE HeaderOk(
        [residue_classbook |-> residue_classbook,
         residue_books |->
            [c \in 1 .. Len(residue_cascade) |->
                read_book(residue_cascade[c], entries[c], codebooks).val]])

\* read_mapping.  couplings holds the [mag, angle] pairs read, mux the
\* values read for the channels when there are several submaps, submaps the
\* [floor, residue] pairs read
coupling_ok(c, audio_channels) ==
    ~(c.angle = c.mag \/ c.mag >= audio_channels \/ c.angle >= audio_channels)

read_mapping(mapping_type, mapping_submaps, couplings, reserved, mux, submaps, audio_channels, floor_count, residue_count) ==
    IF mapping_type > 0 THEN HeaderErr("HeaderBadFormat")
    ELSE IF \E i \in 1 .. Len(couplings) :
                ~coupling_ok(couplings[i], audio_channels)
    THEN HeaderErr("HeaderBadFormat")
    ELSE IF reserved # 0 THEN HeaderErr("HeaderBadFormat")
    ELSE IF mapping_submaps > 1
            /\ \E ch \in 1 .. audio_channels : mux[ch] >= mapping_submaps
    THEN HeaderErr("HeaderBadFormat")
    ELSE IF \E i \in 1 .. mapping_submaps :
                submaps[i].floor >= floor_count
                    \/ submaps[i].residue >= residue_count
    THEN HeaderErr("HeaderBadFormat")
    ELSE HeaderOk(
        [mapping_submaps |-> mapping_submaps,
         mapping_mux |-> IF mapping_submaps > 1 THEN mux
                         ELSE [ch \in 1 .. audio_channels |-> 0],
         mapping_submap_floors |->
            [i \in 1 .. mapping_submaps |-> submaps[i].floor],
         mapping_submap_residues |->
            [i \in 1 .. mapping_submaps |-> submaps[i].residue]])

read_mode_info(mode_blockflag, mode_windowtype, mode_transformtype, mode_mapping, mapping_count) ==
    IF mode_windowtype # 0 \/ mode_transformtype # 0
          \/ mode_mapping >= mapping_count
    THEN HeaderErr("HeaderBadFormat")
    ELSE HeaderOk([mode_blockflag |-> mode_blockflag,
                   mode_mapping |-> mode_mapping])

(***************************************************************************)
(* The audio decoder as a state machine: a decoder context (capi.rs        *)
(* LewtonContext, inside_ogg.rs OggStreamReader) owns ident, setup and     *)
(* pwr, and is handed one packet after the other.  Next to it runs a       *)
(* decoder constructed at the last reset and fed the same packets.         *)
(***************************************************************************)
ModeSeqs == UNION { [1..k -> [mode_blockflag : BOOLEAN]] : k \in 1..MaxModes }

Idents == { id \in [audio_channels : 1..MaxChannels,
                    blocksize_0 : BlocksizeExponents,
                    blocksize_1 : BlocksizeExponents] :
                id.blocksize_0 <= id.blocksize_1 }

PacketData == {<<>>} \cup { <<b>> : b \in 0..MaxPacketByte }

Packets == { p \in [data : PacketData, floor : FloorEvents,
                    residue : ResidueEvents] :
                p.floor = "PacketUndecodable" => p.residue = "Decoded" }

\* ---- begin unit state ----
CoupleIdle ==
    /\ c_mapping = [mapping_magnitudes |-> <<>>, mapping_angles |-> <<>>]
    /\ c_in = <<>>
    /\ c_vectors = <<>>
    /\ c_done = FALSE

BitsIdle ==
    /\ b_inner = <<>>
    /\ b_cur = BitpackCursor_new
    /\ b_last = None

ResidIdle ==
    /\ r_resid = None
    /\ r_codebooks = <<>>
    /\ r_flags = <<>>
    /\ r_loop = None
    /\ r_log = <<>>
    /\ r_eop = FALSE
    /\ r_ret = None

IdentIdle ==
    /\ i_packet = <<>>
    /\ i_ret = None

NeighborIdle ==
    /\ n_v = <<>>
    /\ n_ret = None

OggIdle ==
    /\ o_pck = None
    /\ o_read = 0
    /\ o_rdr = None
    /\ o_ret = None

SampleIdle ==
    /\ f_fl = 0
    /\ f_ret = None

LookupIdle ==
    /\ l_entries = 0
    /\ l_dimensions = 0
    /\ l_ret = None

WindowIdle ==
    /\ w_block = None
    /\ w_ret = None

InterleaveIdle ==
    /\ d_call = None
    /\ d_ret = None

FloorZeroIdle ==
    /\ z_call = None
    /\ z_ret = None

PassBookIdle ==
    /\ p_pc = "idle"
    /\ p_call = None
    /\ p_codebooks = <<>>
    /\ p_book = None
    /\ p_ret = None

LengthsIdle ==
    /\ k_call = None
    /\ k_loop = None
    /\ k_ret = None

\* every group of unit_vars but the group d is idle / unchanged
UnitIdleBut(d) ==
    /\ IF d = "couple" THEN TRUE ELSE CoupleIdle
    /\ IF d = "bits" THEN TRUE ELSE BitsIdle
    /\ IF d = "resid" THEN TRUE ELSE ResidIdle
    /\ IF d = "ident" THEN TRUE ELSE IdentIdle
    /\ IF d = "neighbor" THEN TRUE ELSE NeighborIdle
    /\ IF d = "ogg" THEN TRUE ELSE OggIdle
    /\ IF d = "sample" THEN TRUE ELSE SampleIdle
    /\ IF d = "lookup" THEN TRUE ELSE LookupIdle
    /\ IF d = "window" THEN TRUE ELSE WindowIdle
    /\ IF d = "interleave" THEN TRUE ELSE InterleaveIdle
    /\ IF d = "floorzero" THEN TRUE ELSE FloorZeroIdle
    /\ IF d = "passbook" THEN TRUE ELSE PassBookIdle
    /\ IF d = "lengths" THEN TRUE ELSE LengthsIdle

UnitFrame(d) ==
    /\ IF d = "couple" THEN TRUE ELSE UNCHANGED couple_vars
    /\ IF d = "bits" THEN TRUE ELSE UNCHANGED bits_vars
    /\ IF d = "resid" THEN TRUE ELSE UNCHANGED resid_vars
    /\ IF d = "ident" THEN TRUE ELSE UNCHANGED ident_vars
    /\ IF d = "neighbor" THEN TRUE ELSE UNCHANGED neighbor_vars
    /\ IF d = "ogg" THEN TRUE ELSE UNCHANGED ogg_vars
    /\ IF d = "sample" THEN TRUE ELSE UNCHANGED sample_vars
    /\ IF d = "lookup" THEN TRUE ELSE UNCHANGED lookup_vars
    /\ IF d = "window" THEN TRUE ELSE UNCHANGED window_vars
    /\ IF d = "interleave" THEN TRUE ELSE UNCHANGED interleave_vars
    /\ IF d = "floorzero" THEN TRUE ELSE UNCHANGED floorzero_vars
    /\ IF d = "passbook" THEN TRUE ELSE UNCHANGED passbook_vars
    /\ IF d = "lengths" THEN TRUE ELSE UNCHANGED lengths_vars
\* ---- end unit state ----

HuffIdle ==
    /\ h_lengths = <<>>
    /\ h_tree = None
    /\ h_inner = <<>>
    /\ h_cur = BitpackCursor_new
    /\ h_ret = None

SetupIdle ==
    /\ s_pc = "idle"
    /\ s_left = 0
    /\ s_book_reads = {}
    /\ s_channels = 1
    /\ s_codebooks = <<>>
    /\ s_floors = <<>>
    /\ s_residues = <<>>
    /\ s_mappings = <<>>
    /\ s_modes = <<>>
    /\ s_ret = None

AudioIdle ==
    /\ ident = [audio_channels |-> 1, blocksize_0 |-> MinBlocksize,
                blocksize_1 |-> MinBlocksize]
    /\ setup = [modes |-> <<[mode_blockflag |-> FALSE]>>]
    /\ pwr = PreviousWindowRight_new
    /\ pkt = None
    /\ pwr_in = None
    /\ ret = None
    /\ count_ret = None
    /\ since_reset = "none"
    /\ fresh_pwr = PreviousWindowRight_new
    /\ fresh_ret = None

\* lewton_context_from_extradata / OggStreamReader::new: the headers are
\* read and the overlap state is PreviousWindowRight::new()
Init ==
    /\ ident \in Idents
    /\ setup \in [modes : ModeSeqs]
    /\ pwr = PreviousWindowRight_new
    /\ pkt = None
    /\ pwr_in = None
    /\ ret = None
    /\ count_ret = None
    /\ since_reset = "none"
    /\ fresh_pwr = PreviousWindowRight_new
    /\ fresh_ret = None
    /\ HuffIdle
    /\ SetupIdle
    /\ UnitIdleBut("")

\* a panic unwinds out of the decoder: the context is not used again
Alive ==
    /\ ret # None => ret[1].kind # "Panic"
    /\ count_ret # None => count_ret[1].kind # "Panic"

\* lewton_decode_packet / read_dec_packet_generic: one call of
\* read_audio_packet_generic on the context's pwr
\* r is what the call returns and leaves in pwr, f the same for the
\* decoder constructed at the last reset
DecodeReturns(packet, r, f) ==
    /\ pkt' = Some(packet)
    /\ pwr_in' = pwr
    /\ ret' = Some(r)
    /\ pwr' = r.pwr
    /\ count_ret' = None
    /\ since_reset' = IF since_reset \in {"none", "reset"} THEN "first"
                      ELSE "later"
    /\ fresh_ret' = Some(f)
    /\ fresh_pwr' = f.pwr
    /\ UNCHANGED <<ident, setup, huff_vars, setup_vars, unit_vars>>

lewton_decode_packet(packet) ==
    /\ Alive
    /\ DecodeReturns(packet,
            read_audio_packet_generic(ident, setup, packet, pwr),
            read_audio_packet_generic(ident, setup, packet, fresh_pwr))

\* get_decoded_sample_count on the bytes of the packet last decoded
GetDecodedSampleCount ==
    /\ Alive
    /\ pkt # None
    /\ count_ret = None
    /\ count_ret' = Some(get_decoded_sample_count(ident, setup, pkt[1]))
    /\ UNCHANGED <<ident, setup, pwr, pkt, pwr_in, ret, since_reset,
                   fresh_pwr, fresh_ret, huff_vars, setup_vars,
                   unit_vars>>

\* a reset that leaves the overlap state as it is
reset_pwr_keeps(old) == old

\* the value lewton_context_reset and seek_absgp assign to the context's
\* pwr: PreviousWindowRight::new(), whatever the old one held
reset_pwr(old) == PreviousWindowRight_new

ResetOverlap ==
    /\ Alive
    /\ pwr' = reset_pwr(pwr)
    /\ pkt' = None
    /\ pwr_in' = pwr
    /\ ret' = None
    /\ count_ret' = None
    /\ since_reset' = "reset"
    /\ fresh_pwr' = PreviousWindowRight_new
    /\ fresh_ret' = None
    /\ UNCHANGED <<ident, setup, huff_vars, setup_vars, unit_vars>>

\* capi.rs: lewton_context_reset
lewton_context_reset == ResetOverlap

\* inside_ogg.rs: seek_absgp starts with self.rdr.pwr =
\* PreviousWindowRight::new(); the packets that follow are whatever the
\* stream holds at the seek position
seek_absgp == ResetOverlap

Next ==
    \/ \E packet \in Packets : lewton_decode_packet(packet)
    \/ GetDecodedSampleCount
    \/ lewton_context_reset
    \/ seek_absgp

Spec == Init /\ [][Next]_vars

(***************************************************************************)
(* Huffman trees as a state machine (SpecHuff): a tree is loaded from a    *)
(* length array, a packet is put under a BitpackCursor and codewords are   *)
(* read from it until a read fails.                                        *)
(***************************************************************************)
MaxEntries == 5         \* every length array of up to MaxEntries entries
MaxCodewordLen == 3     \* ... with codeword lengths 0..MaxCodewordLen
MaxHuffByte == 7        \* packet bytes: the MaxHuffByte + 1 lowest and highest

\* the arrays of the tests of huffman_tree.rs and one tree deeper than the
\* 8 bits of the unrolled table
ExampleArrays ==
    { <<2, 4, 4, 4, 4, 2, 3, 3>>, <<2, 4, 4, 4, 4, 2, 3>>,
      <<2, 4, 4, 4, 2, 3, 3>>, <<2, 4, 4, 4, 4, 2, 3, 3, 3>>,
      <<2, 4, 4, 2, 4, 4, 3, 3>>, <<0, 0, 1, 0>>,
      <<1, 2, 3, 4, 5, 6, 7, 8, 9, 9>> }

HuffArrays ==
    UNION { [1 .. n -> 0 .. MaxCodewordLen] : n \in 0 .. MaxEntries }
      \cup ExampleArrays

HuffBytes ==
    { b \in 0 .. U8Max : b <= MaxHuffByte \/ b >= U8Max - MaxHuffByte }

HuffPackets ==
    { <<b>> : b \in HuffBytes } \cup { <<U8Max, b>> : b \in 0 .. MaxHuffByte }

HuffInit ==
    /\ AudioIdle
    /\ SetupIdle
    /\ UnitIdleBut("")
    /\ h_lengths \in HuffArrays
    /\ h_tree = None
    /\ h_inner = <<>>
    /\ h_cur = BitpackCursor_new
    /\ h_ret = None

LoadFromArray ==
    /\ h_tree = None
    /\ h_tree' = Some(load_from_array(h_lengths))
    /\ UNCHANGED <<h_lengths, h_inner, h_cur, h_ret>>
    /\ UNCHANGED <<audio_vars, setup_vars, unit_vars>>

\* BitpackCursor::new(packet)
NewPacket ==
    /\ h_tree # None
    /\ h_tree[1].kind = "Ok"
    /\ h_inner = <<>>
    /\ h_ret = None
    /\ \E packet \in HuffPackets :
          /\ h_inner' = packet
          /\ h_cur' = BitpackCursor_new
    /\ UNCHANGED <<h_lengths, h_tree, h_ret>>
    /\ UNCHANGED <<audio_vars, setup_vars, unit_vars>>

HuffReturns(r) ==
    /\ h_ret' = Some([kind |-> r.kind, val |-> r.val])
    /\ h_cur' = r.cur

\* callers stop reading a packet at the first Err
ReadHuffman ==
    /\ h_tree # None
    /\ h_tree[1].kind = "Ok"
    /\ IF h_ret = None THEN TRUE ELSE h_ret[1].kind = "Ok"
    /\ HuffReturns(read_huffman(h_inner, h_cur, h_tree[1]))
    /\ UNCHANGED <<h_lengths, h_tree, h_inner>>
    /\ UNCHANGED <<audio_vars, setup_vars, unit_vars>>

HuffNext == LoadFromArray \/ NewPacket \/ ReadHuffman

SpecHuff == HuffInit /\ [][HuffNext]_vars

(***************************************************************************)
(* Claims about the audio decoder (checked under Spec).                    *)
(*                                                                         *)
(* The Claim* definitions read the framing fields of the last packet from  *)
(* its first byte by arithmetic, as the Vorbis packet layout defines them: *)
(* bit 0 the packet type, then ceil(log2(modes)) bits of mode number,      *)
(* then, for a long block, the previous and the next window flag.          *)
(***************************************************************************)
Decoded == ret # None
DecodedOk == ret # None /\ ret[1].kind = "Ok"
DecodedErr == ret # None /\ ret[1].kind = "Err"
Chans == 1..ident.audio_channels

ClaimBit(k) == (pkt[1].data[1] \div (2 ^ k)) % 2
ClaimModeBits ==
    CHOOSE k \in 0..8 :
        /\ 2 ^ k >= Len(setup.modes)
        /\ \A j \in 0..(k - 1) : 2 ^ j < Len(setup.modes)
ClaimModeNumber == (pkt[1].data[1] \div 2) % (2 ^ ClaimModeBits)
ClaimLong == setup.modes[ClaimModeNumber + 1].mode_blockflag
ClaimPrevFlag == ClaimBit(1 + ClaimModeBits) = 1
ClaimNextFlag == ClaimBit(2 + ClaimModeBits) = 1
ClaimShortSize == 2 ^ ident.blocksize_0
ClaimLongSize == 2 ^ ident.blocksize_1
\* the right-window region: the second half of the block, or for a long
\* block followed by a short one the short-window sized region centred at
\* three quarters of the block
ClaimRightRegion ==
    IF ~ClaimLong THEN ClaimShortSize \div 2
    ELSE IF ClaimNextFlag THEN ClaimLongSize \div 2
    ELSE ClaimShortSize \div 2

\* C1: when read_audio_packet_generic succeeds on an empty
\* PreviousWindowRight, it returns zero samples in every channel and
\* leaves the PreviousWindowRight non-empty, holding for each channel the
\* packet's right-window region.
C1_FirstPacketPrimes ==
    (DecodedOk /\ is_empty(pwr_in)) =>
        /\ DOMAIN ret[1].samples = Chans
        /\ \A c \in Chans : ret[1].samples[c] = 0
        /\ ~is_empty(pwr)
        /\ DOMAIN pwr[1] = Chans
        /\ \A c \in Chans : pwr[1][c] = ClaimRightRegion

\* a long block announcing a short successor primes a two channel decoder
C1_Witness ==
    /\ DecodedOk
    /\ is_empty(pwr_in)
    /\ ident.audio_channels = MaxChannels
    /\ ident.blocksize_0 < ident.blocksize_1
    /\ ClaimLong
    /\ ~ClaimNextFlag
    /\ ~is_empty(pwr)
    /\ pwr[1][MaxChannels] = ClaimShortSize \div 2

\* C2: whenever read_audio_packet_generic returns an error, the
\* PreviousWindowRight passed to it is empty afterwards.
C2_ErrorEmptiesPwr == DecodedErr => is_empty(pwr)

\* C3: for every packet on which read_audio_packet_generic succeeds with a
\* non-empty PreviousWindowRight, get_decoded_sample_count on the same
\* ident, setup and bytes returns Ok with the per-channel sample count of
\* the decoded output.
C3_CountMatchesDecode ==
    (DecodedOk /\ ~is_empty(pwr_in) /\ count_ret # None) =>
        /\ count_ret[1].kind = "Ok"
        /\ \A c \in Chans : ret[1].samples[c] = count_ret[1].count

\* a long block between two short ones, decoded in steady state
C3_Witness ==
    /\ DecodedOk
    /\ ~is_empty(pwr_in)
    /\ count_ret # None
    /\ ident.blocksize_0 < ident.blocksize_1
    /\ ClaimLong
    /\ ~ClaimPrevFlag
    /\ ~ClaimNextFlag
    /\ count_ret[1].count = ClaimLongSize \div 2
    /\ ret[1].samples[1] = ClaimLongSize \div 2

\* C4: read_audio_packet_generic rejects a packet whose first bit is 1 with
\* AudioIsHeader and a packet whose mode number, read with width
\* ilog(modes - 1) = ceil(log2(modes)), is not below the number of modes
\* with AudioBadFormat, both before any floor or residue data is read.
C4_FramingRejects ==
    /\ ilog(Len(setup.modes) - 1) = ClaimModeBits
    /\ (Decoded /\ pkt[1].data # <<>> /\ ClaimBit(0) = 1) =>
          /\ ret[1].kind = "Err"
          /\ ret[1].err = "AudioIsHeader"
          /\ ret[1].stage = "framing"
    /\ (Decoded /\ pkt[1].data # <<>> /\ ClaimBit(0) = 0
            /\ ClaimModeNumber >= Len(setup.modes)) =>
          /\ ret[1].kind = "Err"
          /\ ret[1].err = "AudioBadFormat"
          /\ ret[1].stage = "framing"

\* a mode number past the mode list, in a packet whose floor data could
\* not be decoded either
C4_Witness ==
    /\ Decoded
    /\ pkt[1].data # <<>>
    /\ ClaimBit(0) = 0
    /\ ClaimModeNumber >= Len(setup.modes)
    /\ pkt[1].floor = "PacketUndecodable"
    /\ ret[1].err = "AudioBadFormat"

\* C5: for any packet bytes get_decoded_sample_count returns a sample
\* count or an AudioReadError and never panics or indexes the mode list
\* out of bounds; a mode number not below the number of modes yields
\* AudioBadFormat.
C5_CountNeverPanics ==
    count_ret # None =>
        /\ count_ret[1].kind # "Panic"
        /\ (pkt[1].data # <<>> /\ ClaimBit(0) = 0
                /\ ClaimModeNumber >= Len(setup.modes)) =>
              (count_ret[1].kind = "Err"
                  /\ count_ret[1].err = "AudioBadFormat")

\* C6: after the overlap state is reset, decoding any sequence of packets
\* gives the same outputs and the same successive overlap states as
\* decoding it in a freshly constructed decoder with the same ident and
\* setup; the first packet after the reset emits no samples.
C6_ResetIsFresh ==
    /\ ret = fresh_ret
    /\ pwr = fresh_pwr
    /\ (since_reset = "first" /\ DecodedOk) =>
          \A c \in Chans : ret[1].samples[c] = 0

\* a primed two channel decoder has just been reset
C6_Witness ==
    /\ since_reset = "reset"
    /\ ~is_empty(pwr_in)
    /\ ident.audio_channels = MaxChannels
    /\ pwr_in[1][MaxChannels] > 0
    /\ is_empty(pwr)
    /\ pwr = fresh_pwr

(***************************************************************************)
(* read_header_setup as a state machine (SpecSetup): s_pc is the section   *)
(* being read, one step reads one record of it.  An error return drops     *)
(* what was read so far.                                                   *)
(***************************************************************************)
MaxCodebooks == 2       \* vorbis_codebook_count ranges over 1..MaxCodebooks
MaxBookNumber == 2      \* a book number read is in 0..MaxBookNumber
MaxTimes == 1           \* vorbis_time_count ranges over 1..MaxTimes
MaxFloors == 1          \* floors, residues, mappings: 1..MaxFloors of each
MaxFloor0Books == 1     \* floor0_number_of_books ranges over 1..MaxFloor0Books
MaxPartitions == 1      \* floor1_partitions ranges over 0..MaxPartitions
MaxRangebits == 1       \* rangebits ranges over 0..MaxRangebits
MaxClassifications == 1 \* residue_classifications: 1..MaxClassifications
MaxCouplingSteps == 1   \* mapping_coupling_steps: 0..MaxCouplingSteps
MaxSubmaps == 2         \* mapping_submaps ranges over 1..MaxSubmaps
MaxSetupModes == 2      \* vorbis_mode_count ranges over 1..MaxSetupModes

BookNumbers == 0 .. MaxBookNumber
\* first bytes: an audio packet, the three header types
HeaderTypes == {0, 1, 3, 5}
SyncPatterns == {SyncPattern, 0}
\* no lookup, a lattice lookup, a reserved lookup type
LookupTypes == {0, 1, 3}
\* accepted, accepted as a single entry, underpopulated
CodebookArrays == { <<1, 1>>, <<0, 1>>, <<2, 2>> }
\* cascade bitmaps with pass 0, 6 and 7
CascadeLowBits == {0, 1}
CascadeHighBits == {8, 16}
Cascades ==
    { cascade_entry(l, f, h) :
        l \in CascadeLowBits, f \in BOOLEAN, h \in CascadeHighBits }

SetupInit ==
    /\ AudioIdle
    /\ HuffIdle
    /\ UnitIdleBut("")
    /\ s_pc = "begin"
    /\ s_left = 0
    /\ s_book_reads = {}
    /\ s_channels \in 1 .. MaxChannels
    /\ s_codebooks = <<>>
    /\ s_floors = <<>>
    /\ s_residues = <<>>
    /\ s_mappings = <<>>
    /\ s_modes = <<>>
    /\ s_ret = None

\* try!(Err(e)): the function returns, its locals are dropped
SetupFails(e) ==
    /\ s_ret' = Some(e)
    /\ s_pc' = "done"
    /\ s_left' = 0
    /\ s_book_reads' = {}
    /\ s_codebooks' = <<>>
    /\ s_floors' = <<>>
    /\ s_residues' = <<>>
    /\ s_mappings' = <<>>
    /\ s_modes' = <<>>
    /\ UNCHANGED s_channels

\* the loop of a section goes on, or the count of the next section is read
SectionStep(next, counts) ==
    IF s_left > 1
    THEN s_pc' = s_pc /\ s_left' = s_left - 1
    ELSE \E n \in counts : s_pc' = next /\ s_left' = n

ReadHeaderBegin ==
    /\ s_pc = "begin"
    /\ \E res \in HeaderTypes, is_vorbis \in BOOLEAN :
         LET hd_id == read_header_begin(res, is_vorbis)
         IN  IF ~hd_id.ok THEN SetupFails(hd_id.err)
             ELSE IF hd_id.val # 5 THEN SetupFails("HeaderBadType")
             ELSE /\ \E n \in 1 .. MaxCodebooks :
                        s_pc' = "codebooks" /\ s_left' = n
                  /\ UNCHANGED <<s_book_reads, s_channels, s_codebooks,
                                 s_floors, s_residues, s_mappings, s_modes,
                                 s_ret>>
    /\ UNCHANGED <<audio_vars, huff_vars, unit_vars>>

ReadCodebook ==
    /\ s_pc = "codebooks"
    /\ \E sync \in SyncPatterns, lengths \in CodebookArrays,
          lookup \in LookupTypes :
         LET cb == read_codebook(sync, lengths, lookup)
         IN  IF ~cb.ok THEN SetupFails(cb.err)
             ELSE /\ s_codebooks' = Append(s_codebooks, cb.val)
                  /\ SectionStep("times", 1 .. MaxTimes)
                  /\ UNCHANGED <<s_book_reads, s_channels, s_floors,
                                 s_residues, s_mappings, s_modes, s_ret>>
    /\ UNCHANGED <<audio_vars, huff_vars, unit_vars>>

\* the time domain transforms: every value has to be 0
ReadTime ==
    /\ s_pc = "times"
    /\ \E value \in {0, 1} :
         IF value # 0 THEN SetupFails("HeaderBadFormat")
         ELSE /\ SectionStep("floors", 1 .. MaxFloors)
              /\ UNCHANGED <<s_book_reads, s_channels, s_codebooks, s_floors,
                             s_residues, s_mappings, s_modes, s_ret>>
    /\ UNCHANGED <<audio_vars, huff_vars, unit_vars>>

\* what the class loop of a type 1 floor can read for one class
ClassInputs ==
    [dimensions : {1}, subclass : {0}, masterbook : {0},
     books : [1 .. 1 -> BookNumbers]]
      \cup [dimensions : {1}, subclass : {1}, masterbook : BookNumbers,
            books : [1 .. 2 -> BookNumbers]]

RECURSIVE floor1_values(_, _)
\* 2 plus the dimensions of the classes of the partitions
floor1_values(floor1_partition_class_list, classes) ==
    IF floor1_partition_class_list = <<>> THEN 2
    ELSE classes[Head(floor1_partition_class_list) + 1].dimensions
           + floor1_values(Tail(floor1_partition_class_list), classes)

FloorReturns(floor) ==
    IF ~floor.ok THEN SetupFails(floor.err)
    ELSE /\ s_floors' = Append(s_floors, floor.val)
         /\ SectionStep("residues", 1 .. MaxFloors)
         /\ UNCHANGED <<s_book_reads, s_channels, s_codebooks, s_residues,
                        s_mappings, s_modes, s_ret>>

ReadFloor ==
    /\ s_pc = "floors"
    /\ \E floor_type \in 0 .. 2 :
         IF floor_type = 0
         THEN \E n \in 1 .. MaxFloor0Books :
                \E floor0_book_list \in [1 .. n -> BookNumbers] :
                  FloorReturns(read_floor0(floor0_book_list, Len(s_codebooks)))
         ELSE IF floor_type = 1
         THEN \E floor1_partitions \in 0 .. MaxPartitions :
                \E class_list \in [1 .. floor1_partitions -> {0}] :
                  \E classes \in [1 .. maximum_class(class_list) + 1
                                     -> ClassInputs] :
                    \E rangebits \in 0 .. MaxRangebits :
                      \E x_values \in
                            [1 .. floor1_values(class_list, classes) - 2
                                -> 0 .. Pow2(rangebits) - 1] :
                        FloorReturns(read_floor1(class_list, classes,
                            rangebits, x_values, Len(s_codebooks)))
         ELSE SetupFails("HeaderBadFormat")
    /\ UNCHANGED <<audio_vars, huff_vars, unit_vars>>

RECURSIVE BookInputs(_)
\* for every classification, a byte for each pass read_book reads
BookInputs(residue_cascade) ==
    IF residue_cascade = <<>> THEN { <<>> }
    ELSE { <<e>> \o rest :
             e \in [ReadPasses(Head(residue_cascade)) -> BookNumbers],
             rest \in BookInputs(Tail(residue_cascade)) }

\* the bytes read_book takes from the packet for the residue being read
BookReads(residue_cascade, entries) ==
    { [residue |-> Len(s_residues), class |-> p[1] - 1, pass |-> p[2],
       val |-> entries[p[1]][p[2]]] :
        p \in { q \in (1 .. Len(residue_cascade)) \X (0 .. 7) :
                  q[2] \in ReadPasses(residue_cascade[q[1]]) } }

ResidueReturns(residue, reads) ==
    IF ~residue.ok THEN SetupFails(residue.err)
    ELSE /\ s_residues' = Append(s_residues, residue.val)
         /\ s_book_reads' = s_book_reads \cup reads
         /\ SectionStep("mappings", 1 .. MaxFloors)
         /\ UNCHANGED <<s_channels, s_codebooks, s_floors, s_mappings,
                        s_modes, s_ret>>

ReadResidue ==
    /\ s_pc = "residues"
    /\ \E residue_type \in 0 .. 3, residue_begin \in {0, 1},
          residue_end \in {0, 1}, residue_classbook \in BookNumbers,
          n \in 1 .. MaxClassifications :
         \E residue_cascade \in [1 .. n -> Cascades] :
           \E entries \in BookInputs(residue_cascade) :
             ResidueReturns(
                read_residue(residue_type, residue_begin, residue_end,
                    residue_classbook, residue_cascade, entries, s_codebooks),
                BookReads(residue_cascade, entries))
    /\ UNCHANGED <<audio_vars, huff_vars, unit_vars>>

\* the values read_dyn_u8(audio_chan_ilog) can return
ChannelNumbers == 0 .. Pow2(ilog(s_channels - 1)) - 1

Couplings ==
    UNION { [1 .. n -> [mag : ChannelNumbers, angle : ChannelNumbers]] :
              n \in 0 .. MaxCouplingSteps }

MuxInputs(mapping_submaps) ==
    IF mapping_submaps > 1 THEN [1 .. s_channels -> 0 .. MaxSubmaps]
    ELSE { [ch \in 1 .. s_channels |-> 0] }

MappingReturns(mapping) ==
    IF ~mapping.ok THEN SetupFails(mapping.err)
    ELSE /\ s_mappings' = Append(s_mappings, mapping.val)
         /\ SectionStep("modes", 1 .. MaxSetupModes)
         /\ UNCHANGED <<s_book_reads, s_channels, s_codebooks, s_floors,
                        s_residues, s_modes, s_ret>>

ReadMapping ==
    /\ s_pc = "mappings"
    /\ \E mapping_type \in {0, 1}, mapping_submaps \in 1 .. MaxSubmaps,
          couplings \in Couplings, reserved \in {0, 1} :
         \E mux \in MuxInputs(mapping_submaps),
            submaps \in [1 .. mapping_submaps ->
                            [floor : 0 .. MaxFloors, residue : 0 .. MaxFloors]] :
           MappingReturns(
              read_mapping(mapping_type, mapping_submaps, couplings, reserved,
                  mux, submaps, s_channels, Len(s_floors), Len(s_residues)))
    /\ UNCHANGED <<audio_vars, huff_vars, unit_vars>>

ReadModeInfo ==
    /\ s_pc = "modes"
    /\ \E mode_blockflag \in BOOLEAN, mode_windowtype \in {0, 1},
          mode_transformtype \in {0, 1}, mode_mapping \in 0 .. MaxFloors :
         LET mode == read_mode_info(mode_blockflag, mode_windowtype,
                         mode_transformtype, mode_mapping, Len(s_mappings))
         IN  IF ~mode.ok THEN SetupFails(mode.err)
             ELSE /\ s_modes' = Append(s_modes, mode.val)
                  /\ SectionStep("framing", {1})
                  /\ UNCHANGED <<s_book_reads, s_channels, s_codebooks,
                                 s_floors, s_residues, s_mappings, s_ret>>
    /\ UNCHANGED <<audio_vars, huff_vars, unit_vars>>

ReadFraming ==
    /\ s_pc = "framing"
    /\ \E framing \in BOOLEAN :
         IF ~framing THEN SetupFails("HeaderBadFormat")
         ELSE /\ s_ret' = Some("Ok")
              /\ s_pc' = "done"
              /\ s_left' = 0
              /\ UNCHANGED <<s_book_reads, s_channels, s_codebooks, s_floors,
                             s_residues, s_mappings, s_modes>>
    /\ UNCHANGED <<audio_vars, huff_vars, unit_vars>>

\* the packet ends inside the section being read: a try!(rdr.read_..())
\* returns EndOfPacket
SetupEndOfPacket ==
    /\ s_pc \notin {"idle", "done"}
    /\ SetupFails("EndOfPacket")
    /\ UNCHANGED <<audio_vars, huff_vars, unit_vars>>

SetupNext ==
    \/ ReadHeaderBegin
    \/ ReadCodebook
    \/ ReadTime
    \/ ReadFloor
    \/ ReadResidue
    \/ ReadMapping
    \/ ReadModeInfo
    \/ ReadFraming
    \/ SetupEndOfPacket

SpecSetup == SetupInit /\ [][SetupNext]_vars

(***************************************************************************)
(* Claims about the setup header (SpecSetup).                              *)
(***************************************************************************)
SetupOk == s_ret = Some("Ok")

FloorBooksValid(floor) ==
    IF floor.floor_type = 0
    THEN \A i \in 1 .. Len(floor.floor0_book_list) :
            floor.floor0_book_list[i] < Len(s_codebooks)
    ELSE /\ \A c \in 1 .. Len(floor.floor1_class_masterbooks) :
              floor.floor1_class_masterbooks[c] < Len(s_codebooks)
         /\ \A c \in 1 .. Len(floor.floor1_subclass_books) :
              \A i \in 1 .. Len(floor.floor1_subclass_books[c]) :
                floor.floor1_subclass_books[c][i] < Len(s_codebooks)

ResidueBooksValid(residue) ==
    /\ residue.residue_classbook < Len(s_codebooks)
    /\ \A c \in 1 .. Len(residue.residue_books) :
         \A pass \in 0 .. 7 :
           LET v == ResidueBook_get_val(residue.residue_books[c], pass)
           IN  v # None => v[1] < Len(s_codebooks)

MappingValid(mapping) ==
    \A i \in 1 .. mapping.mapping_submaps :
        /\ mapping.mapping_submap_floors[i] < Len(s_floors)
        /\ mapping.mapping_submap_residues[i] < Len(s_residues)

\* C8: when read_header_setup returns Ok, every codebook index stored in a
\* floor or a residue is below the number of codebooks, every floor and
\* residue index of a mapping is below the floor and residue counts, and
\* every mode's mapping index is below the mapping count.
C8_IndicesInRange ==
    SetupOk =>
        /\ \A f \in 1 .. Len(s_floors) : FloorBooksValid(s_floors[f])
        /\ \A r \in 1 .. Len(s_residues) : ResidueBooksValid(s_residues[r])
        /\ \A m \in 1 .. Len(s_mappings) : MappingValid(s_mappings[m])
        /\ \A m \in 1 .. Len(s_modes) :
              s_modes[m].mode_mapping < Len(s_mappings)

\* C9: when read_header_setup returns Ok, for every classification of every
\* residue and each of the 8 passes whose bit is set in its bitmap, the
\* stored book number is the byte read from the packet for that pass, and
\* it names an existing codebook that has a VQ lookup.
C9_PassBooksReadAndValid ==
    SetupOk =>
        \A r \in 1 .. Len(s_residues) :
          \A c \in 1 .. Len(s_residues[r].residue_books) :
            \A pass \in 0 .. 7 :
              LET v == ResidueBook_get_val(s_residues[r].residue_books[c], pass)
              IN  v # None =>
                    /\ [residue |-> r - 1, class |-> c - 1, pass |-> pass,
                        val |-> v[1]] \in s_book_reads
                    /\ book_entry_ok(v[1], s_codebooks)

(***************************************************************************)
(* Claims about Huffman trees (SpecHuff).                                  *)
(***************************************************************************)
UsedEntries == { i \in 1 .. Len(h_lengths) : h_lengths[i] # 0 }

Loaded == h_tree # None

LongestCodeword ==
    IF UsedEntries = {} THEN 0
    ELSE CHOOSE l \in { h_lengths[i] : i \in UsedEntries } :
            \A i \in UsedEntries : h_lengths[i] <= l

RECURSIVE KraftUpTo(_)
\* the sum of 2^-length over the used entries 1..i, in units of
\* 2^-LongestCodeword
KraftUpTo(i) ==
    IF i = 0 THEN 0
    ELSE KraftUpTo(i - 1)
           + (IF h_lengths[i] = 0 THEN 0
              ELSE Pow2(LongestCodeword - h_lengths[i]))

KraftSum == KraftUpTo(Len(h_lengths))
KraftOne == Pow2(LongestCodeword)

LoneEntryOfLengthOne ==
    /\ Cardinality(UsedEntries) = 1
    /\ \A i \in UsedEntries : h_lengths[i] = 1

ExpectedLoad ==
    IF KraftSum > KraftOne THEN "Overspecified"
    ELSE IF Cardinality(UsedEntries) = 1
    THEN IF LoneEntryOfLengthOne THEN "Ok" ELSE "InvalidSingleEntry"
    ELSE IF KraftSum < KraftOne THEN "Underpopulated"
    ELSE "Ok"

\* C7: on every tree load_from_array accepts, the empty one included,
\* read_huffman returns a value or an end-of-packet error: it never panics
\* on an index outside the flattened tree.
C7_ReadNeverPanics ==
    h_ret # None => h_ret[1].kind # "Panic"

\* C10: for an array with a used entry, load_from_array returns Ok exactly
\* when the Kraft sum of the used lengths is 1 or the array has a lone
\* entry of length 1; otherwise Overspecified when the sum exceeds 1 (a
\* codeword cannot be placed), InvalidSingleEntry for a lone entry of
\* another length, Underpopulated when the sum stays below 1.
C10_LoadMatchesKraft ==
    (Loaded /\ UsedEntries # {}) =>
        /\ h_tree[1].kind = ExpectedLoad
        /\ h_tree[1].kind = "Ok" <=> (KraftSum = KraftOne \/ LoneEntryOfLengthOne)

C10_Witness ==
    /\ Loaded
    /\ h_tree[1].kind = "Ok"
    /\ Cardinality(UsedEntries) >= 3
    /\ \E i \in UsedEntries : i + 1 \in UsedEntries /\ h_lengths[i] > h_lengths[i + 1]

(***************************************************************************)
(* The reference decoder of C11: codewords are [len, bits], bits being the *)
(* codeword read as a binary number, first bit most significant.           *)
(***************************************************************************)
\* one codeword is a prefix of the other
Clash(a, b) ==
    IF a.len <= b.len THEN Shr(b.bits, b.len - a.len) = a.bits
    ELSE Shr(a.bits, a.len - b.len) = b.bits

\* the leftmost codeword of length len that is free among the codewords
\* taken (a set of [entry, len, bits])
LeftmostFree(taken, len) ==
    LET free == { v \in 0 .. Pow2(len) - 1 :
                    \A t \in taken : ~Clash([len |-> len, bits |-> v], t) }
    IN  CHOOSE v \in free : \A w \in free : v <= w

RECURSIVE RefCodewords(_, _, _)
\* the codewords of the entries i.. of lengths, in index order
RefCodewords(lengths, i, taken) ==
    IF i > Len(lengths) THEN taken
    ELSE IF lengths[i] = 0 THEN RefCodewords(lengths, i + 1, taken)
    ELSE RefCodewords(lengths, i + 1,
            taken \cup { [entry |-> i - 1, len |-> lengths[i],
                          bits |-> LeftmostFree(taken, lengths[i])] })

\* bit number k (from 0) of the packet, least significant bit of a byte first
PacketBit(inner, k) == Shr(inner[(k \div 8) + 1], k % 8) % 2

BitPos(cur) == cur.byte_cursor * 8 + cur.bit_cursor

RECURSIVE RefWalk(_, _, _, _, _)
\* walk from the root: n bits read so far spell bits
RefWalk(codewords, inner, pos, n, bits) ==
    IF \E c \in codewords : c.len = n /\ c.bits = bits
    THEN [kind |-> "Ok", bits |-> n,
          val |-> (CHOOSE c \in codewords : c.len = n /\ c.bits = bits).entry]
    ELSE IF pos + n >= 8 * Len(inner)
    THEN [kind |-> "Err", bits |-> 0, val |-> 0]
    ELSE RefWalk(codewords, inner, pos, n + 1,
                 2 * bits + PacketBit(inner, pos + n))

\* a single-entry tree returns its entry for either bit
RefSingle(entry, inner, pos) ==
    IF pos >= 8 * Len(inner) THEN [kind |-> "Err", bits |-> 0, val |-> 0]
    ELSE [kind |-> "Ok", bits |-> 1, val |-> entry]

RefRead(lengths, inner, pos) ==
    IF Cardinality(UsedEntries) = 1
    THEN RefSingle((CHOOSE i \in UsedEntries : TRUE) - 1, inner, pos)
    ELSE RefWalk(RefCodewords(lengths, 1, {}), inner, pos, 0, 0)

SameRead(ref, r, consumed) ==
    /\ r.kind = ref.kind
    /\ ref.kind = "Ok" => r.val = ref.val /\ consumed = ref.bits

\* C11: on a tree with a used entry, every read_huffman call returns the
\* entry and consumes the number of bits that a bit-by-bit walk of the
\* reference code (each entry, in index order, has the leftmost free codeword
\* of its length) returns and consumes from the same position; a single-entry
\* tree returns its entry for either bit and consumes one bit.
C11_ReadMatchesReference ==
    [][(h_ret' # None /\ UsedEntries # {}) =>
          SameRead(RefRead(h_lengths, h_inner, BitPos(h_cur)), h_ret'[1],
                   BitPos(h_cur') - BitPos(h_cur))]_vars

\* a codeword longer than the 8 bits of the peek table has been read
C11_Witness ==
    /\ h_ret # None
    /\ h_ret[1].kind = "Ok"
    /\ h_lengths[h_ret[1].val + 1] > 8
    /\ BitPos(h_cur) = h_lengths[h_ret[1].val + 1]

(***************************************************************************)
(* audio.rs: inverse coupling (SpecCouple).  A residue vector is a         *)
(* sequence of samples; samples are integers, which keep the sign tests    *)
(* and the sums of inverse_couple.                                         *)
(***************************************************************************)
MaxCoupleChannels == 3  \* residue_vectors has 2..MaxCoupleChannels channels
MaxSample == 1          \* a sample ranges over -MaxSample..MaxSample
MaxCouplings == 2       \* mapping_coupling_steps ranges over 0..MaxCouplings

inverse_couple(m, a) ==
    IF m > 0
    THEN IF a > 0 THEN <<m, m - a>> ELSE <<m + a, m>>
    ELSE IF a > 0 THEN <<m, m + a>> ELSE <<m - a, m>>

\* dual_mut_idx: the indices of the two elements handed out, the first and
\* the last of the range between idx_a and idx_b
dual_mut_idx(idx_a, idx_b) ==
    IF idx_a < idx_b THEN <<idx_a, idx_b>> ELSE <<idx_b, idx_a>>

\* the body of the loop over the coupling steps, for one (mag, angle)
couple_step(residue_vectors, mag, angle) ==
    LET idx == dual_mut_idx(mag, angle)
        mag_vector == residue_vectors[idx[1] + 1]
        angle_vector == residue_vectors[idx[2] + 1]
    IN  [residue_vectors EXCEPT
            ![idx[1] + 1] = [k \in 1 .. Len(mag_vector) |->
                                inverse_couple(mag_vector[k], angle_vector[k])[1]],
            ![idx[2] + 1] = [k \in 1 .. Len(angle_vector) |->
                                inverse_couple(mag_vector[k], angle_vector[k])[2]]]

RECURSIVE inverse_coupling(_, _, _)
\* the loop: steps i, i - 1, .. 1 of the mapping
inverse_coupling(residue_vectors, mapping, i) ==
    IF i = 0 THEN residue_vectors
    ELSE inverse_coupling(
            couple_step(residue_vectors, mapping.mapping_magnitudes[i],
                        mapping.mapping_angles[i]),
            mapping, i - 1)

Samples == (0 - MaxSample) .. MaxSample

\* mappings read_mapping accepts for the channel count
CoupleMappings(audio_channels) ==
    UNION { { [mapping_magnitudes |-> [i \in 1 .. n |-> c[i].mag],
               mapping_angles |-> [i \in 1 .. n |-> c[i].angle]] :
                c \in { d \in [1 .. n -> [mag : 0 .. audio_channels - 1,
                                          angle : 0 .. audio_channels - 1]] :
                          \A i \in 1 .. n : coupling_ok(d[i], audio_channels) } } :
            n \in 0 .. MaxCouplings }

CoupleInit ==
    /\ AudioIdle
    /\ HuffIdle
    /\ SetupIdle
    /\ UnitIdleBut("couple")
    /\ \E audio_channels \in 2 .. MaxCoupleChannels :
          /\ c_in \in [1 .. audio_channels -> [1 .. 1 -> Samples]]
          /\ c_mapping \in CoupleMappings(audio_channels)
    /\ c_vectors = c_in
    /\ c_done = FALSE

InverseCoupling ==
    /\ ~c_done
    /\ c_vectors' = inverse_coupling(c_vectors, c_mapping,
                                     Len(c_mapping.mapping_magnitudes))
    /\ c_done' = TRUE
    /\ UNCHANGED <<c_mapping, c_in>>
    /\ UNCHANGED <<audio_vars, huff_vars, setup_vars>>
    /\ UnitFrame("couple")

CoupleNext == InverseCoupling

SpecCouple == CoupleInit /\ [][CoupleNext]_vars

\* the coupling step of the claim: the first component goes to the
\* magnitude channel, the second to the angle channel
ClaimStep(v, mag, angle) ==
    [v EXCEPT
        ![mag + 1] = [k \in 1 .. Len(v[mag + 1]) |->
                        inverse_couple(v[mag + 1][k], v[angle + 1][k])[1]],
        ![angle + 1] = [k \in 1 .. Len(v[angle + 1]) |->
                        inverse_couple(v[mag + 1][k], v[angle + 1][k])[2]]]

RECURSIVE ClaimUncouple(_, _)
ClaimUncouple(v, i) ==
    IF i = 0 THEN v
    ELSE ClaimUncouple(ClaimStep(v, c_mapping.mapping_magnitudes[i],
                                 c_mapping.mapping_angles[i]), i - 1)

\* C12: the coupling steps are undone in reverse order of declaration, and
\* each step replaces every pair (m, a) of its magnitude and angle channel
\* by inverse_couple(m, a), m written to the magnitude channel and a to the
\* angle channel, whichever of the two channel indices is the larger.
C12_CouplingUndone ==
    c_done =>
        c_vectors = ClaimUncouple(c_in, Len(c_mapping.mapping_magnitudes))

(***************************************************************************)
(* bitpacking.rs: the unsigned readers (SpecBits).                         *)
(*                                                                         *)
(* One action reads with a fixed-width reader and, from the same cursor,   *)
(* with a dynamic-width reader of the same width; another reads a width of *)
(* 0 .. 64 bits with a dynamic-width reader.  The slices are such that the *)
(* whole slice, read as one little-endian number, is below 2^31.           *)
(***************************************************************************)
MaxDataBytes == 2
MaxZeroBytes == 7
U8Bits == 8
U16Bits == 16
U32Bits == 32
U64Bits == 64

read_u32(inner, cur) == bpc_read_body(inner, cur, U32Bits, 32, 4)
read_u24(inner, cur) == bpc_read_body(inner, cur, U32Bits, 24, 3)
read_u16(inner, cur) == bpc_read_body(inner, cur, U16Bits, 16, 2)
read_u13(inner, cur) == bpc_read_body(inner, cur, U16Bits, 13, 1)
read_u8(inner, cur) == bpc_read_body(inner, cur, U8Bits, 8, 1)
read_u7(inner, cur) == bpc_read_body(inner, cur, U8Bits, 7, 0)
read_u6(inner, cur) == bpc_read_body(inner, cur, U8Bits, 6, 0)
read_u5(inner, cur) == bpc_read_body(inner, cur, U8Bits, 5, 0)
read_u4(inner, cur) == bpc_read_body(inner, cur, U8Bits, 4, 0)
read_u3(inner, cur) == bpc_read_body(inner, cur, U8Bits, 3, 0)
read_u2(inner, cur) == bpc_read_body(inner, cur, U8Bits, 2, 0)

\* the widths a fixed-width reader exists for
FixedWidths == (1 .. 8) \cup {13, 16, 24, 32}

\* read_uK
uk_reader(inner, cur, k) ==
    CASE k = 32 -> read_u32(inner, cur)
      [] k = 24 -> read_u24(inner, cur)
      [] k = 16 -> read_u16(inner, cur)
      [] k = 13 -> read_u13(inner, cur)
      [] k = 8 -> read_u8(inner, cur)
      [] k = 7 -> read_u7(inner, cur)
      [] k = 6 -> read_u6(inner, cur)
      [] k = 5 -> read_u5(inner, cur)
      [] k = 4 -> read_u4(inner, cur)
      [] k = 3 -> read_u3(inner, cur)
      [] k = 2 -> read_u2(inner, cur)
      [] k = 1 -> read_u1(inner, cur)

\* read_dyn_uN(bit_num), N = bit_num_max; the caller keeps
\* bit_num <= bit_num_max, which the reader asserts
uk_dynamic_reader(inner, cur, bit_num_max, bit_num) ==
    IF bit_num = 0 THEN ReadOk(0, cur)
    ELSE bpc_read_body(inner, cur, bit_num_max, bit_num, bit_num \div 8)

read_dyn_u16(inner, cur, bit_num) == uk_dynamic_reader(inner, cur, U16Bits, bit_num)

read_dyn_u32(inner, cur, bit_num) == uk_dynamic_reader(inner, cur, U32Bits, bit_num)

read_dyn_u64_strict(inner, cur, bit_num) ==
    IF bit_num = 0 THEN ReadErr(cur)
    ELSE bpc_read_body(inner, cur, U64Bits, bit_num, bit_num \div 8)

read_dyn_u64(inner, cur, bit_num) == uk_dynamic_reader(inner, cur, U64Bits, bit_num)

\* read_dyn_uN for N = bit_num_max
read_dyn(inner, cur, bit_num_max, bit_num) ==
    CASE bit_num_max = U8Bits -> read_dyn_u8(inner, cur, bit_num)
      [] bit_num_max = U16Bits -> read_dyn_u16(inner, cur, bit_num)
      [] bit_num_max = U32Bits -> read_dyn_u32(inner, cur, bit_num)
      [] bit_num_max = U64Bits -> read_dyn_u64(inner, cur, bit_num)

DynTypes == {U8Bits, U16Bits, U32Bits, U64Bits}

\* the readers a width is read with: the narrowest that takes it, and
\* the widest
DynTypesFor(bit_num) ==
    { n \in DynTypes : bit_num <= n /\ (n = U64Bits \/ \A m \in DynTypes : bit_num <= m => n <= m) }

\* the test vector of the reader tests (Vorbis I spec, section 2.1.6),
\* and the one of the regression test, cut to what stays below 2^31
BitsData == {<<252, 72>>, <<93, 92>>, <<252, 72, 206>>}

BitsBytes == {255}

RECURSIVE Zeros(_)
Zeros(n) == IF n = 0 THEN <<>> ELSE <<0>> \o Zeros(n - 1)

BitsSlices ==
    UNION { [1 .. n -> BitsBytes] : n \in 0 .. MaxDataBytes }
      \cup BitsData
      \cup { <<252, 72, 206>> \o Zeros(MaxZeroBytes) }

BitsInit ==
    /\ AudioIdle
    /\ HuffIdle
    /\ SetupIdle
    /\ UnitIdleBut("bits")
    /\ b_inner \in BitsSlices
    /\ b_cur = BitpackCursor_new
    /\ b_last = None

\* cur.read_uK(), next to read_dyn_uN(K) from the same cursor
ReadFixed ==
    \E k \in FixedWidths : \E bit_num_max \in DynTypesFor(k) :
        LET r == uk_reader(b_inner, b_cur, k)
        IN  /\ b_last' = <<[bit_num |-> k, before |-> b_cur, ret |-> r,
                            twin |-> <<read_dyn(b_inner, b_cur, bit_num_max, k)>>]>>
            /\ b_cur' = r.cur
            /\ UNCHANGED b_inner
            /\ UNCHANGED <<audio_vars, huff_vars, setup_vars>>
            /\ UnitFrame("bits")

\* cur.read_dyn_uN(bit_num)
ReadDyn ==
    \E bit_num \in 0 .. U64Bits :
      \E bit_num_max \in DynTypesFor(bit_num) :
        LET r == read_dyn(b_inner, b_cur, bit_num_max, bit_num)
        IN  /\ b_last' = <<[bit_num |-> bit_num, before |-> b_cur, ret |-> r,
                            twin |-> None]>>
            /\ b_cur' = r.cur
            /\ UNCHANGED b_inner
            /\ UNCHANGED <<audio_vars, huff_vars, setup_vars>>
            /\ UnitFrame("bits")

BitsNext == ReadFixed \/ ReadDyn

SpecBits == BitsInit /\ [][BitsNext]_vars

\* the bits of the slice not yet read
Unread(inner, cur) == 8 * Len(inner) - BitPos(cur)

\* the integer formed by the n bits from bit position pos on, the first
\* bit being the least significant
RECURSIVE NextBits(_, _, _)
NextBits(inner, pos, n) ==
    IF n = 0 THEN 0
    ELSE PacketBit(inner, pos) + 2 * NextBits(inner, pos + 1, n - 1)

\* C13: as long as the widths read stay within the slice, a fixed-width
\* reader read_uK returns the same value and leaves the cursor at the same
\* position as a dynamic-width reader read_dyn_uN(K), and the value is the
\* integer formed by the next K bits, least significant bit first.
C13_FixedEqualsDynamic ==
    (b_last # None /\ b_last[1].twin # None
        /\ b_last[1].bit_num <= Unread(b_inner, b_last[1].before))
    => /\ b_last[1].ret.ok
       /\ b_last[1].ret = b_last[1].twin[1]
       /\ b_last[1].ret.val
            = NextBits(b_inner, BitPos(b_last[1].before), b_last[1].bit_num)

C13_Witness ==
    /\ b_last # None
    /\ b_last[1].twin # None
    /\ b_last[1].bit_num = 13
    /\ b_last[1].before.bit_cursor = 6
    /\ b_last[1].ret.ok
    /\ b_last[1].ret.val > U8Max

\* C14: the in-byte bit index is in 0 .. 7; a read of n bits, n in 0 .. 64,
\* succeeds exactly when n is at most the number of unread bits and then
\* advances the cursor by n bits; a zero-width read returns 0 and leaves
\* the cursor, even at the end of the slice; a failing read leaves the
\* cursor where it was.
C14_ReadAdvancesOrFails ==
    /\ b_cur.bit_cursor \in 0 .. 7
    /\ b_last # None =>
         LET n == b_last[1].bit_num
             before == b_last[1].before
             r == b_last[1].ret
         IN  /\ r.ok <=> n <= Unread(b_inner, before)
             /\ r.ok => BitPos(b_cur) = BitPos(before) + n
             /\ n = 0 => r = ReadOk(0, before)
             /\ ~r.ok => r = ReadErr(before)
             /\ b_cur = r.cur

C14_Witness ==
    /\ b_last # None
    /\ ~b_last[1].ret.ok
    /\ b_last[1].bit_num > 8
    /\ Unread(b_inner, b_cur) \in 1 .. 7

C14_WitnessZero ==
    /\ b_last # None
    /\ b_last[1].bit_num = 0
    /\ Len(b_inner) > 0
    /\ Unread(b_inner, b_cur) = 0

(***************************************************************************)
(* audio.rs: what read_audio_packet_generic reports as EndOfPacket (Spec). *)
(***************************************************************************)
\* C15: read_audio_packet_generic returns EndOfPacket only when the packet
\* ran out of bits in the framing fields (header bit, mode number, window
\* flags); an undecodable floor (a floor 0 book number outside the book
\* list, a codebook without VQ lookup) is not reported as EndOfPacket.
C15_EndOfPacketOnlyInFraming ==
    (Decoded /\ ret[1].kind = "Err" /\ ret[1].err = "EndOfPacket") =>
        ret[1].stage = "framing"

(***************************************************************************)
(* audio.rs: residue_packet_decode (SpecResidue).                          *)
(*                                                                         *)
(* One step enters the function, one reads the classwords of a partition   *)
(* group (pass 0), one decodes one partition for every channel.  The bits  *)
(* of the packet are not spelled out: a step is given the number of        *)
(* codewords the packet still holds, and a read past them is the end of    *)
(* the packet.  Every codebook has one entry; a sample is an integer.      *)
(***************************************************************************)
MaxResidueChannels == 2
MaxStepReads == 4
MaxClassword == 1
ResiduePasses == 8

ResOk(v) == [kind |-> "Ok", vectors |-> v]
ResErr == [kind |-> "Err", vectors |-> <<>>]
ResPanic == [kind |-> "Panic", vectors |-> <<>>]

Min(a, b) == IF a < b THEN a ELSE b

\* the state of residue_packet_read_partition and of the loops around it:
\* err is "" while no read has failed
PartOk(vectors, used, log) ==
    [err |-> "", vectors |-> vectors, used |-> used, log |-> log]
PartErr(e, vectors, used, log) ==
    [err |-> e, vectors |-> vectors, used |-> used, log |-> log]

\* vec_v[idx[t]] += entry[t], vec_v being vectors[base ..]
add_entries(vectors, base, idx, entry) ==
    [p \in 1 .. Len(vectors) |->
        IF \E t \in 1 .. Len(entry) : base + idx[t] + 1 = p
        THEN vectors[p] + entry[CHOOSE t \in 1 .. Len(entry) : base + idx[t] + 1 = p]
        ELSE vectors[p]]

log_entries(log, base, idx, entry) ==
    log \o [t \in 1 .. Len(entry) |-> <<base + idx[t], entry[t]>>]

\* residue type 0: for i in 0 .. step
RECURSIVE read_partition_0(_, _, _, _, _, _, _, _)
read_partition_0(codebook, step, i, vectors, base, avail, used, log) ==
    IF i >= step THEN PartOk(vectors, used, log)
    ELSE IF used >= avail THEN PartErr("EndOfPacket", vectors, used, log)
    ELSE IF codebook.codebook_vq_lookup_vec = None
    THEN PartErr("NoVqLookupForCodebook", vectors, used + 1, log)
    ELSE read_partition_0(codebook, step, i + 1,
            add_entries(vectors, base,
                [t \in 1 .. codebook.codebook_dimensions |-> i + (t - 1) * step],
                codebook.codebook_vq_lookup_vec[1]),
            base, avail, used + 1,
            log_entries(log, base,
                [t \in 1 .. codebook.codebook_dimensions |-> i + (t - 1) * step],
                codebook.codebook_vq_lookup_vec[1]))

\* residue types 1 and 2: while i < partition_size; the loop is left when
\* vec_v has no room for the entries read
RECURSIVE read_partition_1(_, _, _, _, _, _, _, _, _)
read_partition_1(codebook, partition_size, i, vectors, base, len_v, avail, used, log) ==
    IF i >= partition_size THEN PartOk(vectors, used, log)
    ELSE IF used >= avail THEN PartErr("EndOfPacket", vectors, used, log)
    ELSE IF codebook.codebook_vq_lookup_vec = None
    THEN PartErr("NoVqLookupForCodebook", vectors, used + 1, log)
    ELSE IF i + codebook.codebook_dimensions > len_v
    THEN PartOk(vectors, used + 1, log)
    ELSE read_partition_1(codebook, partition_size,
            i + codebook.codebook_dimensions,
            add_entries(vectors, base,
                [t \in 1 .. codebook.codebook_dimensions |-> i + t - 1],
                codebook.codebook_vq_lookup_vec[1]),
            base, len_v, avail, used + 1,
            log_entries(log, base,
                [t \in 1 .. codebook.codebook_dimensions |-> i + t - 1],
                codebook.codebook_vq_lookup_vec[1]))

\* vec_v is vectors[base .. base + len_v]
residue_packet_read_partition(resid, codebook, vectors, base, len_v, avail, used, log) ==
    IF resid.residue_type = 0
    THEN read_partition_0(codebook,
            resid.residue_partition_size \div codebook.codebook_dimensions,
            0, vectors, base, avail, used, log)
    ELSE read_partition_1(codebook, resid.residue_partition_size, 0,
            vectors, base, len_v, avail, used, log)

\* the values residue_packet_decode_inner computes before its loop
inner_ctx(cur_blocksize, do_not_decode_flag, resid, codebooks) ==
    LET actual_size == cur_blocksize \div 2
        limit_residue_begin == Min(resid.residue_begin, actual_size)
        limit_residue_end == Min(resid.residue_end, actual_size)
        classwords_per_codeword ==
            codebooks[resid.residue_classbook + 1].codebook_dimensions
        n_to_read == limit_residue_end - limit_residue_begin
        partitions_to_read == n_to_read \div resid.residue_partition_size
    IN  [resid |-> resid, codebooks |-> codebooks,
         do_not_decode_flag |-> do_not_decode_flag,
         ch |-> Len(do_not_decode_flag),
         actual_size |-> actual_size,
         limit_residue_begin |-> limit_residue_begin,
         classwords_per_codeword |-> classwords_per_codeword,
         n_to_read |-> n_to_read,
         partitions_to_read |-> partitions_to_read,
         cl_stride |-> partitions_to_read + classwords_per_codeword]

\* temp after its last i digits, base residue_classifications, were taken
RECURSIVE class_digit(_, _, _)
class_digit(temp, base, i) ==
    IF i = 0 THEN temp ELSE class_digit(temp \div base, base, i - 1)

\* for i in (0 .. classwords_per_codeword).rev()
put_classwords(ctx, classifications, j, partition_count, temp) ==
    [p \in 1 .. Len(classifications) |->
        LET i == p - 1 - j * ctx.cl_stride - partition_count
        IN  IF i >= 0 /\ i < ctx.classwords_per_codeword
            THEN class_digit(temp, ctx.resid.residue_classifications,
                             ctx.classwords_per_codeword - 1 - i)
                   % ctx.resid.residue_classifications
            ELSE classifications[p]]

\* pass 0: one read_huffman(residue_classbok_ht) per channel to decode
RECURSIVE read_classwords(_, _, _, _, _, _)
read_classwords(ctx, lp, j, temps, avail, st) ==
    IF st.err # "" \/ j >= ctx.ch THEN st
    ELSE IF ctx.do_not_decode_flag[j + 1]
    THEN read_classwords(ctx, lp, j + 1, temps, avail, st)
    ELSE IF st.used >= avail THEN [st EXCEPT !.err = "EndOfPacket"]
    ELSE read_classwords(ctx, lp, j + 1, temps, avail,
            [st EXCEPT !.used = @ + 1,
                       !.classifications =
                            put_classwords(ctx, @, j, lp.partition_count,
                                           temps[j + 1])])

\* one partition of every channel to decode
RECURSIVE read_partitions(_, _, _, _, _)
read_partitions(ctx, lp, j, avail, st) ==
    IF st.err # "" \/ j >= ctx.ch THEN st
    ELSE IF ctx.do_not_decode_flag[j + 1]
    THEN read_partitions(ctx, lp, j + 1, avail, st)
    ELSE LET offs == ctx.limit_residue_begin
                        + lp.partition_count * ctx.resid.residue_partition_size
             vqclass == lp.classifications[j * ctx.cl_stride + lp.partition_count + 1]
             vqbook_opt == ResidueBook_get_val(ctx.resid.residue_books[vqclass + 1],
                                               lp.pass)
         IN  IF vqbook_opt = None
             THEN read_partitions(ctx, lp, j + 1, avail, st)
             ELSE read_partitions(ctx, lp, j + 1, avail,
                    residue_packet_read_partition(ctx.resid,
                        ctx.codebooks[vqbook_opt[1] + 1], st.vectors,
                        j * ctx.actual_size + offs, ctx.actual_size - offs,
                        avail, st.used, st.log))

\* where the loops stand after partition_count += 1
loop_next(ctx, lp) ==
    IF lp.partition_count < ctx.partitions_to_read
    THEN IF lp.k < ctx.classwords_per_codeword
         THEN lp
         ELSE [lp EXCEPT !.k = 0,
                         !.phase = IF lp.pass = 0 THEN "class" ELSE "vq"]
    ELSE IF lp.pass + 1 < ResiduePasses
    THEN [lp EXCEPT !.pass = @ + 1, !.partition_count = 0, !.k = 0,
                    !.phase = "vq"]
    ELSE [lp EXCEPT !.phase = "done"]

\* the post decode step of residue type 2
deinterleave(vectors, ch) ==
    [p \in 1 .. Len(vectors) |->
        vectors[((p - 1) % (Len(vectors) \div ch)) * ch
                  + ((p - 1) \div (Len(vectors) \div ch)) + 1]]

\* an end of packet met by the inner function makes it return Err
decode_returns_rejecting(resid, do_not_decode_flag, inner) ==
    IF inner.kind # "Ok" THEN inner
    ELSE IF inner.eop THEN ResErr
    ELSE IF resid.residue_type = 2
    THEN ResOk(deinterleave(inner.vectors, Len(do_not_decode_flag)))
    ELSE ResOk(inner.vectors)

\* what residue_packet_decode makes of the inner function's result
decode_returns(resid, do_not_decode_flag, inner) ==
    IF inner.kind # "Ok" THEN inner
    ELSE IF resid.residue_type = 2
    THEN ResOk(deinterleave(inner.vectors, Len(do_not_decode_flag)))
    ELSE ResOk(inner.vectors)

InnerOk(vectors, eop) == [kind |-> "Ok", vectors |-> vectors, eop |-> eop]

\* the arguments residue_packet_decode gives to the inner function
ResidueCtx(cur_blocksize) ==
    IF r_resid[1].residue_type = 2
    THEN inner_ctx(U16(cur_blocksize * Len(r_flags)), <<FALSE>>,
                   r_resid[1], r_codebooks)
    ELSE inner_ctx(cur_blocksize, r_flags, r_resid[1], r_codebooks)

\* cur_blocksize, a power of two as every block size is
ResidueBlocksizeExp == 3
ResidueBlocksize == Pow2(ResidueBlocksizeExp)

\* the classbook (not used for VQ, so without lookup) and a VQ book
ResidueCodebooks ==
    { <<[codebook_dimensions |-> c, codebook_vq_lookup_vec |-> None],
        [codebook_dimensions |-> d,
         codebook_vq_lookup_vec |-> <<[t \in 1 .. d |-> t]>>]>> :
        c \in 0 .. 2, d \in 1 .. 2 }

\* class 0 has a book in pass 0, class 1 in passes 1 and 7; the book of
\* pass 7 is the one read_book leaves at 0
ResidueBooks ==
    <<[vals_used |-> 1, val_i |-> <<1, 0, 0, 0, 0, 0, 0, 0>>],
      [vals_used |-> 130, val_i |-> <<0, 1, 0, 0, 0, 0, 0, 0>>]>>

Residues ==
    [residue_type : 0 .. 2, residue_begin : {0}, residue_end : {0, 4, 100},
     residue_partition_size : {2}, residue_classifications : {2},
     residue_classbook : {0}, residue_books : {ResidueBooks}]

LoopAt(phase, pass, partition_count, k, vectors, classifications) ==
    [phase |-> phase, pass |-> pass, partition_count |-> partition_count,
     k |-> k, vectors |-> vectors, classifications |-> classifications]

ResidueInit ==
    /\ AudioIdle
    /\ HuffIdle
    /\ SetupIdle
    /\ UnitIdleBut("resid")
    /\ \E resid \in Residues : r_resid = <<resid>>
    /\ r_codebooks \in ResidueCodebooks
    /\ \E ch \in 1 .. MaxResidueChannels : r_flags \in [1 .. ch -> BOOLEAN]
    /\ r_loop = <<LoopAt("enter", 0, 0, 0, <<>>, <<>>)>>
    /\ r_log = <<>>
    /\ r_eop = FALSE
    /\ r_ret = None

ResidueFrame ==
    /\ UNCHANGED <<r_resid, r_codebooks, r_flags>>
    /\ UNCHANGED <<audio_vars, huff_vars, setup_vars>>
    /\ UnitFrame("resid")

\* the inner function returns
InnerReturns(lp, inner) ==
    /\ r_loop' = <<[lp EXCEPT !.phase = "done"]>>
    /\ r_ret' = <<decode_returns(r_resid[1], r_flags, inner)>>

\* residue_packet_decode up to the loop of the inner function
ResidueEnter ==
    /\ r_loop[1].phase = "enter"
    /\ LET ctx == ResidueCtx(ResidueBlocksize)
           vectors == Zeros(ctx.ch * ctx.actual_size)
           lp == LoopAt("class", 0, 0, 0, vectors,
                        Zeros(ctx.ch * ctx.cl_stride))
       IN  /\ IF r_resid[1].residue_type = 2 /\ \A j \in 1 .. Len(r_flags) : r_flags[j]
              THEN /\ r_loop' = <<[lp EXCEPT !.phase = "done"]>>
                   /\ r_ret' = <<ResOk(Zeros(Len(r_flags) * (ResidueBlocksize \div 2)))>>
              ELSE IF ctx.n_to_read = 0
              THEN InnerReturns(lp, InnerOk(vectors, FALSE))
              ELSE IF ctx.classwords_per_codeword = 0
              THEN InnerReturns(lp, ResErr)
              ELSE IF ctx.partitions_to_read = 0
              THEN InnerReturns(lp, InnerOk(vectors, FALSE))
              ELSE r_loop' = <<lp>> /\ r_ret' = None
           /\ UNCHANGED <<r_log, r_eop>>
           /\ ResidueFrame

\* if pass == 0: the classwords of the next classwords_per_codeword
\* partitions, the packet holding avail more codewords
ReadClasswords ==
    /\ r_loop[1].phase = "class"
    /\ \E avail \in 0 .. MaxResidueChannels :
       \E temps \in [1 .. MaxResidueChannels -> 0 .. MaxClassword] :
          LET ctx == ResidueCtx(ResidueBlocksize)
              lp == r_loop[1]
              st == read_classwords(ctx, lp, 0, temps, avail,
                        [err |-> "", used |-> 0,
                         classifications |-> lp.classifications])
          IN  /\ r_eop' = (st.err = "EndOfPacket")
              /\ IF st.err = "EndOfPacket"
                 THEN InnerReturns(lp, InnerOk(lp.vectors, TRUE))
                 ELSE /\ r_loop' = <<[lp EXCEPT !.phase = "vq",
                                         !.classifications = st.classifications]>>
                      /\ r_ret' = None
              /\ UNCHANGED r_log
              /\ ResidueFrame

\* one round of for _ in 0 .. classwords_per_codeword: partition
\* partition_count of every channel, the packet holding avail more codewords
ReadPartitions ==
    /\ r_loop[1].phase = "vq"
    /\ \E avail \in 0 .. MaxStepReads :
          LET ctx == ResidueCtx(ResidueBlocksize)
              lp == r_loop[1]
              st == read_partitions(ctx, lp, 0, avail,
                                    PartOk(lp.vectors, 0, r_log))
              after == [lp EXCEPT !.vectors = st.vectors,
                                  !.partition_count = @ + 1, !.k = @ + 1]
          IN  /\ r_eop' = (st.err = "EndOfPacket")
              /\ r_log' = st.log
              /\ IF st.err = "EndOfPacket"
                 THEN InnerReturns([lp EXCEPT !.vectors = st.vectors],
                                     InnerOk(st.vectors, TRUE))
                 ELSE IF st.err = "NoVqLookupForCodebook"
                 THEN InnerReturns([lp EXCEPT !.vectors = st.vectors], ResPanic)
                 ELSE IF loop_next(ctx, after).phase = "done"
                 THEN InnerReturns(after, InnerOk(st.vectors, FALSE))
                 ELSE r_loop' = <<loop_next(ctx, after)>> /\ r_ret' = None
              /\ ResidueFrame

ResidueNext == ResidueEnter \/ ReadClasswords \/ ReadPartitions

SpecResidue == ResidueInit /\ [][ResidueNext]_vars

\* the sum of the values the log adds to index p
RECURSIVE LogSum(_, _, _)
LogSum(log, i, p) ==
    IF i > Len(log) THEN 0
    ELSE (IF log[i][1] = p THEN log[i][2] ELSE 0) + LogSum(log, i + 1, p)

\* the index of the decode buffer that position p (from 0) of the result
\* holds: for residue type 2 the buffer interleaves the channels
BufferIndex(p) ==
    IF r_resid[1].residue_type = 2
    THEN (p % (ResidueBlocksize \div 2)) * Len(r_flags)
            + (p \div (ResidueBlocksize \div 2))
    ELSE p

\* C16: when the packet runs out anywhere inside residue decode, in a
\* classbook read or a partition read of any pass, residue_packet_decode
\* returns Ok; the result holds every value added before that point, and
\* every position not written is zero.
C16_EndOfPacketKeepsValues ==
    r_eop =>
        /\ r_ret # None
        /\ r_ret[1].kind = "Ok"
        /\ Len(r_ret[1].vectors) = Len(r_flags) * (ResidueBlocksize \div 2)
        /\ \A p \in 0 .. Len(r_ret[1].vectors) - 1 :
              r_ret[1].vectors[p + 1] = LogSum(r_log, 1, BufferIndex(p))

C16_Witness ==
    /\ r_eop
    /\ r_resid[1].residue_type = 2
    /\ Len(r_flags) = 2
    /\ r_loop[1].pass = 1
    /\ r_ret[1].kind = "Ok"
    /\ r_ret[1].vectors[1] # r_ret[1].vectors[5]
    /\ \E p \in 1 .. Len(r_ret[1].vectors) : r_ret[1].vectors[p] = 0

(***************************************************************************)
(* header.rs: read_header_ident (SpecIdent), read from the packet bytes.   *)
(***************************************************************************)
MaxIdentType == 3
MaxIdentVersion == 1
MaxIdentChannels == 2
MaxIdentFraming == 2

\* 'v' 'o' 'r' 'b' 'i' 's'
VorbisMagic == <<118, 111, 114, 98, 105, 115>>

\* res << k >> k on the signed type of bit_cnt_large bits, k being
\* bit_cnt_large - bit_cnt_small: bit bit_cnt_small - 1 is the sign
sign_extend(num, bit_cnt_small) ==
    IF Shr(Shr(num, bit_cnt_small - 2), 1) % 2 = 1
    THEN num - 4 * Pow2(bit_cnt_small - 2)
    ELSE num

read_i32(inner, cur) ==
    LET r == bpc_read_body(inner, cur, U32Bits, 32, 4)
    IN  IF r.ok THEN ReadOk(sign_extend(r.val, 32), r.cur) ELSE r

\* the && chain over the six bytes: a byte that differs ends the reads
RECURSIVE read_is_vorbis(_, _, _)
read_is_vorbis(inner, cur, k) ==
    IF k > Len(VorbisMagic) THEN ReadOk(TRUE, cur)
    ELSE LET r == read_u8(inner, cur)
         IN  IF ~r.ok THEN ReadErr(cur)
             ELSE IF r.val # VorbisMagic[k] THEN ReadOk(FALSE, r.cur)
             ELSE read_is_vorbis(inner, r.cur, k + 1)

BeginOk(res, cur) == [ok |-> TRUE, err |-> "", val |-> res, cur |-> cur]
BeginErr(e, cur) == [ok |-> FALSE, err |-> e, val |-> 0, cur |-> cur]

\* impl From<()> for HeaderReadError
HeaderReadError_from_unit == "EndOfPacket"

begin_magic(res, m) ==
    IF ~m.ok THEN BeginErr(HeaderReadError_from_unit, m.cur)
    ELSE IF ~m.val THEN BeginErr("NotVorbisHeader", m.cur)
    ELSE BeginOk(res, m.cur)

begin_type(inner, res) ==
    IF ~res.ok THEN BeginErr(HeaderReadError_from_unit, res.cur)
    ELSE IF BitAnd(res.val, 1) = 0 THEN BeginErr("HeaderIsAudio", res.cur)
    ELSE begin_magic(res.val, read_is_vorbis(inner, res.cur, 1))

read_header_begin_body(inner, cur) == begin_type(inner, read_u8(inner, cur))

\* the readers of the fields behind the version
IdentReaders == <<"u8", "u32", "i32", "i32", "i32", "u4", "u4", "u8">>

read_ident_field(inner, cur, reader) ==
    CASE reader = "u8" -> read_u8(inner, cur)
      [] reader = "u4" -> read_u4(inner, cur)
      [] reader = "u32" -> read_u32(inner, cur)
      [] reader = "i32" -> read_i32(inner, cur)

\* try!(rdr.read_..()) for the fields from i on, in the order of the code
RECURSIVE read_ident_fields(_, _, _, _)
read_ident_fields(inner, cur, i, vals) ==
    IF i > Len(IdentReaders) THEN [ok |-> TRUE, vals |-> vals]
    ELSE LET r == read_ident_field(inner, cur, IdentReaders[i])
         IN  IF ~r.ok THEN [ok |-> FALSE, vals |-> vals]
             ELSE read_ident_fields(inner, r.cur, i + 1, Append(vals, r.val))

IdentHeader(audio_channels, audio_sample_rate, bitrate_maximum, bitrate_nominal, bitrate_minimum, blocksize_0, blocksize_1) ==
    [audio_channels |-> audio_channels,
     audio_sample_rate |-> audio_sample_rate,
     bitrate_maximum |-> bitrate_maximum,
     bitrate_nominal |-> bitrate_nominal,
     bitrate_minimum |-> bitrate_minimum,
     blocksize_0 |-> blocksize_0,
     blocksize_1 |-> blocksize_1]

\* the check without blocksize_0 > blocksize_1
ident_bad_format_unordered(audio_channels, audio_sample_rate, blocksize_0, blocksize_1, framing) ==
    \/ blocksize_0 < MinBlocksize \/ blocksize_0 > MaxBlocksize
    \/ blocksize_1 < MinBlocksize \/ blocksize_1 > MaxBlocksize
    \/ framing # 1
    \/ audio_channels = 0 \/ audio_sample_rate = 0

ident_bad_format(audio_channels, audio_sample_rate, blocksize_0, blocksize_1, framing) ==
    \/ blocksize_0 < MinBlocksize \/ blocksize_0 > MaxBlocksize
    \/ blocksize_1 < MinBlocksize \/ blocksize_1 > MaxBlocksize
    \/ framing # 1 \/ blocksize_0 > blocksize_1
    \/ audio_channels = 0 \/ audio_sample_rate = 0

ident_fields(f) ==
    IF ~f.ok THEN HeaderErr(HeaderReadError_from_unit)
    ELSE IF ident_bad_format(f.vals[1], f.vals[2], f.vals[6], f.vals[7], f.vals[8])
    THEN HeaderErr("HeaderBadFormat")
    ELSE HeaderOk(IdentHeader(f.vals[1], f.vals[2], f.vals[3], f.vals[4],
                              f.vals[5], f.vals[6], f.vals[7]))

ident_version(packet, vorbis_version) ==
    IF ~vorbis_version.ok THEN HeaderErr(HeaderReadError_from_unit)
    ELSE IF vorbis_version.val # 0 THEN HeaderErr("UnsupportedVorbisVersion")
    ELSE ident_fields(read_ident_fields(packet, vorbis_version.cur, 1, <<>>))

ident_type(packet, hd_id) ==
    IF ~hd_id.ok THEN HeaderErr(hd_id.err)
    ELSE IF hd_id.val # 1 THEN HeaderErr("HeaderBadType")
    ELSE ident_version(packet, read_u32(packet, hd_id.cur))

read_header_ident(packet) ==
    ident_type(packet, read_header_begin_body(packet, BitpackCursor_new))

\* a u32 as the four bytes the packet holds it in
Le32(v) == <<v % 256, (v \div 256) % 256, (v \div 65536) % 256, v \div 16777216>>

\* the valid ident header of test_read_header_ident
IdentTestPacket ==
    <<1, 118, 111, 114, 98, 105, 115, 0, 0, 0, 0, 2, 68, 172, 0, 0, 0, 0, 0, 0,
      128, 181, 1, 0, 0, 0, 0, 0, 184, 1>>

\* the six bytes behind the type, byte k (if any) wrong
IdentMagics == { [j \in 1 .. 6 |-> IF j = k THEN 0 ELSE VorbisMagic[j]] : k \in {0, 1, 6} }

IdentBlocksizes == {MinBlocksize - 1, MinBlocksize, MaxBlocksize, MaxBlocksize + 1}

IdentSampleRates == {0, 44100}

IdentBitrates == {<<0, 112000, 0>>}

ident_packet(type, magic, version, channels, rate, bitrates, bs0, bs1, framing) ==
    <<type>> \o magic \o Le32(version) \o <<channels>> \o Le32(rate)
        \o Le32(bitrates[1]) \o Le32(bitrates[2]) \o Le32(bitrates[3])
        \o <<bs0 + 16 * bs1, framing>>

IdentWholePackets ==
    { ident_packet(f.type, f.magic, f.version, f.channels, f.rate, f.bitrates,
                   f.bs0, f.bs1, f.framing) :
        f \in [type : 0 .. MaxIdentType, magic : IdentMagics,
               version : 0 .. MaxIdentVersion, channels : 0 .. MaxIdentChannels,
               rate : IdentSampleRates, bitrates : IdentBitrates,
               bs0 : IdentBlocksizes, bs1 : IdentBlocksizes,
               framing : 0 .. MaxIdentFraming] }

\* packets cut short: a valid one, and ones a check would reject
IdentCutPackets ==
    UNION { { SubSeq(p, 1, n) : n \in 0 .. Len(p) } :
        p \in {IdentTestPacket,
               ident_packet(3, VorbisMagic, 0, 1, 44100, <<0, 0, 0>>, 8, 8, 1),
               ident_packet(1, VorbisMagic, 1, 1, 44100, <<0, 0, 0>>, 8, 8, 1),
               ident_packet(1, VorbisMagic, 0, 0, 44100, <<0, 0, 0>>, 8, 8, 1),
               ident_packet(1, <<118, 111, 0, 98, 105, 115>>, 0, 1, 44100, <<0, 0, 0>>, 8, 8, 1),
               ident_packet(1, VorbisMagic, 0, 1, 44100, <<0, 0, 0>>, 13, 6, 1)} }

IdentPackets == IdentWholePackets \cup IdentCutPackets \cup {IdentTestPacket \o <<0>>}

IdentInit ==
    /\ AudioIdle
    /\ HuffIdle
    /\ SetupIdle
    /\ UnitIdleBut("ident")
    /\ i_packet \in IdentPackets
    /\ i_ret = None

ReadHeaderIdent ==
    /\ i_ret = None
    /\ i_ret' = <<read_header_ident(i_packet)>>
    /\ UNCHANGED i_packet
    /\ UNCHANGED <<audio_vars, huff_vars, setup_vars>>
    /\ UnitFrame("ident")

IdentNext == ReadHeaderIdent

SpecIdent == IdentInit /\ [][IdentNext]_vars

\* the packet's bytes off + 1 .. off + n as a little-endian number, or -1
\* when the packet does not hold them all
RECURSIVE LeValue(_, _, _)
LeValue(p, off, n) ==
    IF off + n > Len(p) THEN 0 - 1
    ELSE IF n = 0 THEN 0
    ELSE p[off + 1] + 256 * LeValue(p, off + 1, n - 1)

ClaimType == LeValue(i_packet, 0, 1)
ClaimMagicOk == \A k \in 1 .. 6 : LeValue(i_packet, k, 1) = VorbisMagic[k]
ClaimVersion == LeValue(i_packet, 7, 4)
ClaimChannels == LeValue(i_packet, 11, 1)
ClaimRate == LeValue(i_packet, 12, 4)
ClaimBs0 == IF Len(i_packet) < 29 THEN 0 - 1 ELSE i_packet[29] % 16
ClaimBs1 == IF Len(i_packet) < 29 THEN 0 - 1 ELSE i_packet[29] \div 16
ClaimFraming == LeValue(i_packet, 29, 1)

ClaimIdentValid ==
    /\ ClaimType = 1
    /\ ClaimMagicOk
    /\ ClaimVersion = 0
    /\ ClaimChannels >= 1
    /\ ClaimRate > 0
    /\ MinBlocksize <= ClaimBs0 /\ ClaimBs0 <= ClaimBs1 /\ ClaimBs1 <= MaxBlocksize
    /\ ClaimFraming = 1

\* the first applicable error of the claim
ClaimIdentError ==
    IF ClaimType % 2 = 0 THEN "HeaderIsAudio"
    ELSE IF ~ClaimMagicOk THEN "NotVorbisHeader"
    ELSE IF ClaimType # 1 THEN "HeaderBadType"
    ELSE IF ClaimVersion # 0 THEN "UnsupportedVorbisVersion"
    ELSE "HeaderBadFormat"

\* C17: read_header_ident returns Ok exactly when the packet starts with
\* type byte 1 and 'vorbis', the version is 0, the channel count at least 1,
\* the sample rate above 0, 6 <= bs0 <= bs1 <= 13 and the framing byte 1;
\* otherwise it fails with the first applicable of HeaderIsAudio,
\* NotVorbisHeader, HeaderBadType, UnsupportedVorbisVersion, HeaderBadFormat.
C17_IdentOkOrFirstError ==
    i_ret # None =>
        /\ i_ret[1].ok <=> ClaimIdentValid
        /\ ~i_ret[1].ok => i_ret[1].err = ClaimIdentError

\* the first magic byte that is missing or wrong, 7 if there is none
ClaimMagicStop ==
    CHOOSE k \in 1 .. 7 :
        /\ \A j \in 1 .. k - 1 : LeValue(i_packet, j, 1) = VorbisMagic[j]
        /\ k <= 6 => LeValue(i_packet, k, 1) # VorbisMagic[k]

\* the first applicable error when a packet that ends before the field
\* being read fails with EndOfPacket
AmendedIdentError ==
    IF Len(i_packet) < 1 THEN "EndOfPacket"
    ELSE IF ClaimType % 2 = 0 THEN "HeaderIsAudio"
    ELSE IF ClaimMagicStop <= 6
    THEN IF Len(i_packet) < 1 + ClaimMagicStop THEN "EndOfPacket"
         ELSE "NotVorbisHeader"
    ELSE IF ClaimType # 1 THEN "HeaderBadType"
    ELSE IF Len(i_packet) < 11 THEN "EndOfPacket"
    ELSE IF ClaimVersion # 0 THEN "UnsupportedVorbisVersion"
    ELSE IF Len(i_packet) < 30 THEN "EndOfPacket"
    ELSE "HeaderBadFormat"

\* C17, amended: as C17, but a packet that ends before the field being
\* read (fields are read in order, the magic up to its first wrong byte,
\* and the fields behind the version all before they are checked) fails
\* with EndOfPacket.
C17_IdentOkOrFirstErrorOrEnd ==
    i_ret # None =>
        /\ i_ret[1].ok <=> ClaimIdentValid
        /\ ~i_ret[1].ok => i_ret[1].err = AmendedIdentError

\* a packet that lacks nothing but its framing byte
C17_Witness ==
    /\ i_ret # None
    /\ i_ret[1].err = "EndOfPacket"
    /\ Len(i_packet) = 29
    /\ ClaimType = 1
    /\ ClaimMagicOk
    /\ ClaimVersion = 0
    /\ ClaimBs0 <= ClaimBs1

(***************************************************************************)
(* audio.rs: low_neighbor and high_neighbor (SpecNeighbor).                *)
(***************************************************************************)
MaxListLen == 4
MaxListValue == 3

\* a.cmp(&b)
cmp(a, b) == IF a < b THEN "Less" ELSE IF a = b THEN "Equal" ELSE "Greater"

\* the closure passed as compare: a.cmp(&b) for "smaller", b.cmp(&a) for
\* "bigger"
compare(relation, a, b) == IF relation = "smaller" THEN cmp(a, b) ELSE cmp(b, a)

smaller(relation, a, b) == compare(relation, a, b) = "Less"

\* prefix.iter().position(..), from index i on
RECURSIVE position(_, _, _, _)
position(v, max_idx, relation, i) ==
    IF i >= max_idx THEN None
    ELSE IF smaller(relation, v[i + 1], v[max_idx + 1]) THEN Some(i)
    ELSE position(v, max_idx, relation, i + 1)

\* a fold that keeps the earlier of two equally maximum elements
max_by_fold_first(ord, x, y) == IF ord = "Less" THEN y ELSE x

\* the fold of Iterator::max_by: of two equally maximum elements the later
\* one is kept
max_by_fold(ord, x, y) == IF ord = "Greater" THEN x ELSE y

\* .rev().filter(..).max_by(..) over prefix[min_idx ..]: offset runs from
\* the end of the prefix down to 0, best is the fold's accumulator
RECURSIVE rev_filter_max_by(_, _, _, _, _, _)
rev_filter_max_by(v, max_idx, relation, min_idx, offset, best) ==
    IF offset < 0 THEN best
    ELSE IF ~smaller(relation, v[min_idx + offset + 1], v[max_idx + 1])
    THEN rev_filter_max_by(v, max_idx, relation, min_idx, offset - 1, best)
    ELSE rev_filter_max_by(v, max_idx, relation, min_idx, offset - 1,
            IF best = None THEN Some(<<offset, v[min_idx + offset + 1]>>)
            ELSE Some(max_by_fold(compare(relation, best[1][2],
                                          v[min_idx + offset + 1]),
                                  best[1], <<offset, v[min_idx + offset + 1]>>)))

NeighborOk(idx, val) == [kind |-> "Ok", idx |-> idx, val |-> val]
NeighborPanic == [kind |-> "Panic", idx |-> 0, val |-> 0]

\* .unwrap_or((0, v[min_idx])) and the pair returned
extr_found(v, min_idx, found) ==
    IF found = None THEN NeighborOk(min_idx, v[min_idx + 1])
    ELSE NeighborOk(min_idx + found[1][1], found[1][2])

extr_from(v, max_idx, relation, min_idx) ==
    IF min_idx = None THEN NeighborPanic
    ELSE extr_found(v, min_idx[1],
            rev_filter_max_by(v, max_idx, relation, min_idx[1],
                              max_idx - min_idx[1] - 1, None))

extr_neighbor(v, max_idx, relation) ==
    IF max_idx >= Len(v) THEN NeighborPanic
    ELSE extr_from(v, max_idx, relation, position(v, max_idx, relation, 0))

low_neighbor(v, x) == extr_neighbor(v, x, "smaller")

high_neighbor(v, x) == extr_neighbor(v, x, "bigger")

NeighborLists ==
    UNION { [1 .. n -> 0 .. MaxListValue] : n \in 1 .. MaxListLen }
      \cup {<<1, 4, 2, 3, 6, 5>>}

NeighborInit ==
    /\ AudioIdle
    /\ HuffIdle
    /\ SetupIdle
    /\ UnitIdleBut("neighbor")
    /\ n_v \in NeighborLists
    /\ n_ret = None

LowNeighbor ==
    \E x \in 0 .. Len(n_v) - 1 :
        /\ n_ret' = <<[relation |-> "smaller", x |-> x, res |-> low_neighbor(n_v, x)]>>
        /\ UNCHANGED n_v
        /\ UNCHANGED <<audio_vars, huff_vars, setup_vars>>
        /\ UnitFrame("neighbor")

HighNeighbor ==
    \E x \in 0 .. Len(n_v) - 1 :
        /\ n_ret' = <<[relation |-> "bigger", x |-> x, res |-> high_neighbor(n_v, x)]>>
        /\ UNCHANGED n_v
        /\ UNCHANGED <<audio_vars, huff_vars, setup_vars>>
        /\ UnitFrame("neighbor")

NeighborNext == LowNeighbor \/ HighNeighbor

SpecNeighbor == NeighborInit /\ [][NeighborNext]_vars

\* the values before index x (from 0) that are below v[x], or above it
Below(v, x) == { v[j + 1] : j \in { k \in 0 .. x - 1 : v[k + 1] < v[x + 1] } }
Above(v, x) == { v[j + 1] : j \in { k \in 0 .. x - 1 : v[k + 1] > v[x + 1] } }

Greatest(S) == CHOOSE m \in S : \A n \in S : n <= m
Least(S) == CHOOSE m \in S : \A n \in S : m <= n

\* the earliest index before x that holds val
Earliest(v, x, val) ==
    CHOOSE j \in 0 .. x - 1 : v[j + 1] = val /\ \A k \in 0 .. j - 1 : v[k + 1] # val

\* C18: when some earlier element is smaller than v[i], low_neighbor(v, i)
\* returns the index j < i of the greatest value below v[i]; when some
\* earlier element is larger, high_neighbor(v, i) returns the index j < i
\* of the least value above v[i]; of several positions holding that value
\* the earliest is returned.
C18_NeighborIsNearest ==
    n_ret # None =>
        LET x == n_ret[1].x
            res == n_ret[1].res
        IN  /\ (n_ret[1].relation = "smaller" /\ Below(n_v, x) # {}) =>
                  res = NeighborOk(Earliest(n_v, x, Greatest(Below(n_v, x))),
                                   Greatest(Below(n_v, x)))
            /\ (n_ret[1].relation = "bigger" /\ Above(n_v, x) # {}) =>
                  res = NeighborOk(Earliest(n_v, x, Least(Above(n_v, x))),
                                   Least(Above(n_v, x)))

\* the nearest value above is held twice, behind a value further above
C18_Witness ==
    /\ n_ret # None
    /\ n_ret[1].relation = "bigger"
    /\ n_ret[1].x = 3
    /\ n_v[1] > n_v[2]
    /\ n_v[2] = n_v[3]
    /\ n_v[3] > n_v[4]
    /\ n_ret[1].res = NeighborOk(1, n_v[2])

\* ------------------------------------------------------------------
\* OggStreamReader (inside_ogg.rs): the reader over the audio packets of
\* one logical stream.  A packet is what the reader looks at: its page
\* flags, its page's granule position, and what decoding makes of it.
\* ------------------------------------------------------------------
MaxAbsgp == 3
MaxSamples == 2
MaxReads == 4

OggPackets ==
    [last_in_page : BOOLEAN, last_in_stream : BOOLEAN,
     absgp_page : 0 .. MaxAbsgp, samples : 0 .. MaxSamples,
     kind : {"audio", "undecodable", "bad_header"}]

\* what a call of read_expected_packet_with_stream_serial can yield: an
\* error of the PacketReader, or the next packet of the stream
OggInputs == {None} \cup { Some(p) : p \in OggPackets }

OggOk(val) == [kind |-> "Ok", val |-> val, err |-> ""]
OggErr(e) == [kind |-> "Err", val |-> None, err |-> e]
OggPanic == [kind |-> "Panic", val |-> None, err |-> ""]

\* u64::saturating_sub
saturating_sub(a, b) == IF a > b THEN a - b ELSE 0

\* get_decoded_sample_count(..) of a packet's data: it reads the packet's
\* first bits only
packet_sample_count(p) ==
    IF p.kind = "bad_header" THEN None ELSE Some(p.samples)

\* read_audio_packet / read_audio_packet_generic of a packet's data: the
\* number of samples decoded, None for an Err
packet_decode(p) ==
    IF p.kind = "audio" THEN Some(p.samples) ELSE None

OggStreamReader(state, skip_count, start_absgp, cur_absgp, next_packet) ==
    [state |-> state, skip_count |-> skip_count, start_absgp |-> start_absgp,
     cur_absgp |-> cur_absgp, next_packet |-> next_packet]

OggStep(res, rdr, reads, pck) ==
    [res |-> res, rdr |-> rdr, reads |-> reads, pck |-> pck]

\* load_second_audio_packet, the body of if second_packet.last_in_page()
load_second_adjust(rdr, second_packet, second_packet_sample_count) ==
    LET skip_count == saturating_sub(second_packet_sample_count,
                                     second_packet.absgp_page)
        start_absgp == saturating_sub(second_packet.absgp_page,
                                      second_packet_sample_count)
    IN  IF start_absgp + skip_count + second_packet_sample_count
               # second_packet.absgp_page
        THEN OggStep(OggPanic, rdr, 1, Some(second_packet))
        ELSE OggStep(OggOk(None),
                     [rdr EXCEPT !.skip_count = skip_count,
                                 !.start_absgp = start_absgp,
                                 !.cur_absgp = start_absgp],
                     1, Some(second_packet))

\* load_second_audio_packet, its last statements
load_second_finish(step, second_packet) ==
    IF step.res.kind # "Ok" THEN step
    ELSE OggStep(OggOk(None),
                 [step.rdr EXCEPT !.state = "Processing",
                                  !.next_packet = Some(second_packet)],
                 1, Some(second_packet))

\* load_second_audio_packet; inp is what the PacketReader yields
load_second_audio_packet(rdr, inp) ==
    IF inp = None THEN OggStep(OggErr("OggError"), rdr, 1, None)
    ELSE IF ~inp[1].last_in_page
    THEN load_second_finish(OggStep(OggOk(None), rdr, 1, inp), inp[1])
    ELSE IF packet_sample_count(inp[1]) = None
    THEN OggStep(OggErr("BadAudio"), rdr, 1, inp)
    ELSE load_second_finish(
            load_second_adjust(rdr, inp[1], packet_sample_count(inp[1])[1]),
            inp[1])

\* from_ogg_reader_and_previous_packet from the second packet on
from_ogg_reader_second(reader, first, step) ==
    IF step.res.kind = "Ok"
    THEN OggStep(OggOk(None), Some(step.rdr), 2, step.pck)
    ELSE OggStep(step.res, None, 2, step.pck)

\* from_ogg_reader_and_previous_packet; headers is the outcome of
\* read_headers_with_ident_packet: "Err", or Ok with no_more_packets set
\* ("Last") or not ("More")
from_ogg_reader_and_previous_packet(headers, first, second) ==
    LET reader == OggStreamReader("Finished", 0, 0, 0, None)
    IN  IF headers = "Err" THEN OggStep(OggErr("BadHeader"), None, 0, None)
        ELSE IF headers = "Last" THEN OggStep(OggOk(None), Some(reader), 0, None)
        ELSE IF first = None THEN OggStep(OggErr("OggError"), None, 1, None)
        ELSE IF first[1].last_in_stream
        THEN OggStep(OggOk(None), Some(reader), 1, first)
        ELSE IF packet_decode(first[1]) = None
        THEN OggStep(OggErr("BadAudio"), None, 1, first)
        ELSE from_ogg_reader_second(reader, first,
                                    load_second_audio_packet(reader, second))

\* Samples::truncate on a packet of len samples
samples_truncate(len, limit) == IF limit < len THEN limit ELSE len

\* if let ReaderState::Finished = self.state, never taken
is_finished_never(state) == FALSE

\* if let ReaderState::Finished = self.state
is_finished(state) == state = "Finished"

\* read_dec_packet_generic after the packet is decoded to num_samples
generic_decoded(rdr, pck, num_samples, reads) ==
    LET skip_count == Min(rdr.skip_count, num_samples)
        skip_left == rdr.skip_count - skip_count
        begun == num_samples - skip_count
        truncate_size == saturating_sub(rdr.cur_absgp + begun, pck.absgp_page)
        decoded == IF pck.last_in_stream /\ skip_left = 0
                   THEN samples_truncate(begun, truncate_size)
                   ELSE begun
        cur_absgp == rdr.cur_absgp + decoded
    IN  OggStep(OggOk(Some(decoded)),
                OggStreamReader(
                    IF pck.last_in_stream THEN "Finished" ELSE rdr.state,
                    skip_left, rdr.start_absgp,
                    IF pck.last_in_page /\ cur_absgp # pck.absgp_page
                    THEN pck.absgp_page ELSE cur_absgp,
                    None),
                reads, Some(pck))

\* read_dec_packet_generic once the packet pck is at hand
generic_packet(rdr, pck, reads) ==
    IF packet_decode(pck) = None
    THEN OggStep(OggErr("BadAudio"), [rdr EXCEPT !.next_packet = None],
                 reads, Some(pck))
    ELSE generic_decoded(rdr, pck, packet_decode(pck)[1], reads)

\* read_dec_packet_generic; inp is what the PacketReader yields if it is
\* asked
read_dec_packet_generic(rdr, inp) ==
    IF is_finished(rdr.state) THEN OggStep(OggOk(None), rdr, 0, None)
    ELSE IF rdr.next_packet # None
    THEN generic_packet(rdr, rdr.next_packet[1], 0)
    ELSE IF inp = None THEN OggStep(OggErr("OggError"), rdr, 1, None)
    ELSE generic_packet(rdr, inp[1], 1)

\* read_dec_packet: try!(self.read_dec_packet_generic())
read_dec_packet(rdr, inp) == read_dec_packet_generic(rdr, inp)

\* read_dec_packet_itl: the samples of the interleaved packet, or None
read_dec_packet_itl(rdr, inp) == read_dec_packet_generic(rdr, inp)

OggReaders == {"read_dec_packet", "read_dec_packet_generic", "read_dec_packet_itl"}

ogg_read(fn, rdr, inp) ==
    CASE fn = "read_dec_packet" -> read_dec_packet(rdr, inp)
      [] fn = "read_dec_packet_generic" -> read_dec_packet_generic(rdr, inp)
      [] fn = "read_dec_packet_itl" -> read_dec_packet_itl(rdr, inp)

\* the PacketReader is asked only by a reader that is Processing and holds
\* no next_packet; what it would yield otherwise is of no account
OggReadInputs(rdr) ==
    IF rdr.state = "Processing" /\ rdr.next_packet = None
    THEN OggInputs ELSE {None}

OggCall(fn, res, before) == [fn |-> fn, res |-> res, before |-> before]

OggInit ==
    /\ AudioIdle /\ HuffIdle /\ SetupIdle
    /\ UnitIdleBut("ogg")
    /\ OggIdle

OggFrame == UNCHANGED <<audio_vars, huff_vars, setup_vars>> /\ UnitFrame("ogg")

\* OggStreamReader::from_ogg_reader and its kin: the reader is built
FromOggReader ==
    /\ o_rdr = None
    /\ o_ret = None
    /\ \E headers \in {"Err", "Last", "More"}, first \in OggInputs, second \in OggInputs :
         LET step == from_ogg_reader_and_previous_packet(headers, first, second)
         IN  /\ o_rdr' = step.rdr
             /\ o_read' = step.reads
             /\ o_pck' = step.pck
             /\ o_ret' = Some(OggCall("from_ogg_reader_and_previous_packet",
                                      step.res, None))
    /\ OggFrame

\* one call of read_dec_packet, read_dec_packet_generic or
\* read_dec_packet_itl on the reader
ReadDecPacket ==
    /\ o_rdr # None
    /\ \E fn \in OggReaders, inp \in OggReadInputs(o_rdr[1]) :
         LET step == ogg_read(fn, o_rdr[1], inp)
         IN  /\ o_read + step.reads <= MaxReads
             /\ o_rdr' = Some(step.rdr)
             /\ o_read' = o_read + step.reads
             /\ o_pck' = IF step.reads = 0 THEN o_pck ELSE step.pck
             /\ o_ret' = Some(OggCall(fn, step.res, Some(o_rdr[1].state)))
    /\ OggFrame

OggNext == FromOggReader \/ ReadDecPacket

SpecOgg == OggInit /\ [][OggNext]_vars

Max(a, b) == IF a > b THEN a ELSE b

\* the second audio packet was read by the construction, ended its page
\* and had its sample count predicted
SecondPacketAdjusted ==
    /\ o_ret # None
    /\ o_ret[1].fn = "from_ogg_reader_and_previous_packet"
    /\ o_read = 2
    /\ o_pck # None
    /\ o_pck[1].last_in_page
    /\ packet_sample_count(o_pck[1]) # None

\* C19: when the second audio packet ends its page, with g the page's
\* granule position and c the packet's predicted sample count,
\* load_second_audio_packet does not panic and leaves
\* start_absgp = max(0, g - c) and skip_count = max(0, c - g), also when
\* g is smaller than c
C19_SecondPacketClamps ==
    SecondPacketAdjusted =>
        /\ o_ret[1].res = OggOk(None)
        /\ IF o_rdr = None THEN FALSE
           ELSE /\ o_rdr[1].start_absgp
                     = Max(0, o_pck[1].absgp_page - o_pck[1].samples)
                /\ o_rdr[1].skip_count
                     = Max(0, o_pck[1].samples - o_pck[1].absgp_page)

C20_WitnessShortStream ==
    /\ o_ret # None
    /\ o_ret[1].fn = "read_dec_packet"
    /\ o_ret[1].before = Some("Finished")
    /\ o_ret[1].res = OggOk(None)
    /\ o_read = 1

\* the packet the call at hand decodes: next_packet if the reader holds
\* one, else what the PacketReader yields
PacketAtHand == IF o_rdr[1].next_packet # None THEN o_rdr[1].next_packet ELSE o_pck'

\* a Processing reader with no skip pending returns the packet flagged
\* last-in-stream, whose page ends at or behind cur_absgp
LastPacketReturned ==
    /\ o_rdr # None
    /\ o_rdr[1].state = "Processing"
    /\ o_rdr[1].skip_count = 0
    /\ o_ret' # o_ret
    /\ o_ret'[1].res.kind = "Ok"
    /\ PacketAtHand # None
    /\ PacketAtHand[1].last_in_stream
    /\ PacketAtHand[1].absgp_page >= o_rdr[1].cur_absgp

\* C21: when the packet flagged last-in-stream is read with no skip
\* pending, the packet returned keeps min(decoded sample count,
\* absgp_page - cur_absgp) samples, cur_absgp being the position before
\* the packet, so that the stream ends at the page's granule position
C21_LastPacketEndsAtAbsgp ==
    [][LastPacketReturned
          => o_ret'[1].res.val
               = Some(Min(PacketAtHand[1].samples,
                          PacketAtHand[1].absgp_page - o_rdr[1].cur_absgp))]_ogg_vars

\* ------------------------------------------------------------------
\* Sample for i16 (samples.rs): from_float.  A float is held exactly as
\* an integer count of units of 1 / (32768 * SampleDen), so that the
\* product fl * 32768.0 is the same count in units of 1 / SampleDen; the
\* floats drawn have few enough digits for the product to be exact in
\* f32.
\* ------------------------------------------------------------------
SampleDen == 4
MaxSampleOffset == 20
I16Max == 32767
I16Min == -I16Max - 1

\* fl * 32768.0
mul_32768(fl) == fl

\* fl as i16 for a float within the range of i16: the fraction is dropped
as_i16(fl) == IF fl >= 0 THEN fl \div SampleDen ELSE -((-fl) \div SampleDen)

\* <i16 as Sample>::from_float
from_float(fl) ==
    IF mul_32768(fl) > I16Max * SampleDen THEN I16Max
    ELSE IF mul_32768(fl) < I16Min * SampleDen THEN I16Min
    ELSE as_i16(mul_32768(fl))

\* floats around 0 and around both ends of the range of i16
SampleFloats ==
    UNION { { base * SampleDen + k : k \in -MaxSampleOffset .. MaxSampleOffset }
            : base \in {I16Min, 0, I16Max} }

SampleInit ==
    /\ AudioIdle /\ HuffIdle /\ SetupIdle
    /\ UnitIdleBut("sample")
    /\ SampleIdle

FromFloat ==
    /\ \E fl \in SampleFloats :
         /\ f_fl' = fl
         /\ f_ret' = Some(from_float(fl))
    /\ UNCHANGED <<audio_vars, huff_vars, setup_vars>>
    /\ UnitFrame("sample")

SampleNext == FromFloat

SpecSample == SampleInit /\ [][SampleNext]_vars

\* the nearest integer to x / SampleDen, a half rounded away from zero
Round(x) ==
    IF x >= 0 THEN (2 * x + SampleDen) \div (2 * SampleDen)
    ELSE -((2 * (-x) + SampleDen) \div (2 * SampleDen))

Clip(x, lo, hi) == IF x < lo THEN lo ELSE IF x > hi THEN hi ELSE x

\* C22: from_float(f) for i16 is clip(round(f * 32768), -32768, 32767):
\* products beyond the range map to its ends, and every product in
\* between maps to the nearest integer
C22_FromFloatRounds ==
    f_ret # None => f_ret[1] = Clip(Round(f_fl), I16Min, I16Max)

\* ------------------------------------------------------------------
\* header.rs: exp_fast and lookup1_values.  A u32 is held as the pair
\* <<hi, lo>> of its two 16 bit halves, so that the values between 2^31
\* and 2^32 - 1, which the search over all 32 bits meets, are computed
\* as they are.
\* ------------------------------------------------------------------
Half == Pow2(16)

u32_of(x) == <<x \div Half, x % Half>>

u32_max == <<Half - 1, Half - 1>>

\* a < b on u32
u32_lt(a, b) == a[1] < b[1] \/ (a[1] = b[1] /\ a[2] < b[2])

\* a | b and a & !b on u32
u32_or(a, b) == <<BitOr(a[1], b[1]), BitOr(a[2], b[2])>>
u32_and_not(a, b) == <<BitAnd(a[1], Half - 1 - b[1]), BitAnd(a[2], Half - 1 - b[2])>>

\* 1 << k on u32, k < 32
u32_bit(k) == IF k >= 16 THEN <<Pow2(k - 16), 0>> ELSE <<0, Pow2(k)>>

\* big * small for small below 2^16, with the halves of the product of
\* the two low halves put together from two products of 24 bits; None
\* if the product is 2^32 or more
u32_mul_halves(top, high, low) ==
    IF top + (high + low \div 256) \div 256 >= Half THEN None
    ELSE Some(<<top + (high + low \div 256) \div 256,
                ((high + low \div 256) % 256) * 256 + (low % 256)>>)

u32_mul_small(big, small) ==
    IF small = 0 THEN Some(<<0, 0>>)
    ELSE IF big[1] > (Half - 1) \div small THEN None
    ELSE u32_mul_halves(big[1] * small, big[2] * (small \div 256),
                        big[2] * (small % 256))

\* u32::checked_mul
checked_mul(a, b) ==
    IF a[1] > 0 /\ b[1] > 0 THEN None
    ELSE IF b[1] = 0 THEN u32_mul_small(a, b[2])
    ELSE u32_mul_small(b, a[2])

ExpOk(val) == [kind |-> "Ok", val |-> val]
ExpPanic == [kind |-> "Panic", val |-> <<0, 0>>]
\* res *= selfmul beyond u32: a panic or a wrapped value, as the build has it
ExpOverflow == [kind |-> "Overflow", val |-> <<0, 0>>]

RECURSIVE exp_fast_loop(_, _, _, _)
RECURSIVE exp_fast_squared(_, _, _, _)
RECURSIVE exp_fast_next(_, _, _, _)

\* exp_fast: after let Some(newselfmul) = u32::checked_mul(selfmul, selfmul)
exp_fast_next(exponent, i, res, newselfmul) ==
    IF newselfmul # None THEN exp_fast_loop(exponent, i + 1, res, newselfmul[1])
    ELSE IF i < 7 /\ Shr(exponent, i + 1) > 0 THEN ExpPanic
    ELSE ExpOk(res)

\* exp_fast: after res *= selfmul
exp_fast_squared(exponent, i, res, selfmul) ==
    IF res = None THEN ExpOverflow
    ELSE exp_fast_next(exponent, i, res[1], checked_mul(selfmul, selfmul))

\* exp_fast: for i in 0 .. 8
exp_fast_loop(exponent, i, res, selfmul) ==
    IF i >= 8 THEN ExpOk(res)
    ELSE exp_fast_squared(exponent, i,
            IF BitAnd(Shl(1, i, U8Bits), exponent) > 0
            THEN checked_mul(res, selfmul) ELSE Some(res),
            selfmul)

exp_fast(base, exponent) == exp_fast_loop(exponent, 0, u32_of(1), base)

MAX_BASES_WITHOUT_OVERFLOW ==
    <<u32_max, u32_max, u32_of(65535), u32_of(1625),
      u32_of(255), u32_of(84), u32_of(40), u32_of(23),
      u32_of(15), u32_of(11), u32_of(9), u32_of(7),
      u32_of(6), u32_of(5), u32_of(4), u32_of(4),
      u32_of(3), u32_of(3), u32_of(3), u32_of(3),
      u32_of(3), u32_of(2), u32_of(2), u32_of(2),
      u32_of(2), u32_of(2), u32_of(2), u32_of(2),
      u32_of(2), u32_of(2), u32_of(2), u32_of(2)>>

MAX_BASE_MAX_BITS_WITHOUT_OVERFLOW ==
    <<31, 31, 15, 10,
      7, 6, 5, 4,
      3, 3, 3, 2,
      2, 2, 2, 2,
      1, 1, 1, 1,
      1, 1, 1, 1,
      1, 1, 1, 1,
      1, 1, 1, 1>>

\* a test that also rejects a power equal to codebook_entries
exceeds_or_equals(power, codebook_entries) == ~u32_lt(power, u32_of(codebook_entries))

\* exp_fast(base_bits, codebook_dimensions as u8) > codebook_entries
exceeds(power, codebook_entries) == u32_lt(u32_of(codebook_entries), power)

RECURSIVE lookup1_loop(_, _, _, _)
RECURSIVE lookup1_disputed(_, _, _, _, _)
RECURSIVE lookup1_tested(_, _, _, _, _, _)

\* lookup1_values: the right side of ||, and the if on its value
lookup1_tested(codebook_entries, codebook_dimensions, i, base_bits, bit, power) ==
    IF power.kind # "Ok" THEN power
    ELSE lookup1_loop(codebook_entries, codebook_dimensions, i + 1,
            IF exceeds(power.val, codebook_entries)
            THEN u32_and_not(base_bits, bit) ELSE base_bits)

\* lookup1_values: the loop's body once cur_disputed_bit is set in base_bits
lookup1_disputed(codebook_entries, codebook_dimensions, i, base_bits, bit) ==
    IF u32_lt(MAX_BASES_WITHOUT_OVERFLOW[codebook_dimensions + 1], base_bits)
    THEN lookup1_loop(codebook_entries, codebook_dimensions, i + 1,
                      u32_and_not(base_bits, bit))
    ELSE lookup1_tested(codebook_entries, codebook_dimensions, i, base_bits, bit,
                        exp_fast(base_bits, codebook_dimensions % Pow2(U8Bits)))

\* lookup1_values: for i in 0 .. max_base_bits + 1
lookup1_loop(codebook_entries, codebook_dimensions, i, base_bits) ==
    IF i > MAX_BASE_MAX_BITS_WITHOUT_OVERFLOW[codebook_dimensions + 1]
    THEN ExpOk(base_bits)
    ELSE lookup1_disputed(codebook_entries, codebook_dimensions, i,
            u32_or(base_bits,
                   u32_bit(MAX_BASE_MAX_BITS_WITHOUT_OVERFLOW[codebook_dimensions + 1] - i)),
            u32_bit(MAX_BASE_MAX_BITS_WITHOUT_OVERFLOW[codebook_dimensions + 1] - i))

lookup1_values(codebook_entries, codebook_dimensions) ==
    IF codebook_dimensions >= 32
    THEN ExpOk(IF codebook_entries = 0 THEN u32_of(0) ELSE u32_of(1))
    ELSE lookup1_loop(codebook_entries, codebook_dimensions, 0, u32_of(0))

MaxLookupEntries == 200
MaxLookupDimensions == 33

\* the entry counts of test_lookup1_values, and the greatest counts of 24
\* bits with the square and the cube next to them
LookupEntries ==
    (0 .. MaxLookupEntries)
        \cup {1023, 1024, 1025, 3124, 3125, 3126, 400}
        \cup {Pow2(24) - 1, 4095 * 4095 - 1, 4095 * 4095, 255 * 255 * 255 - 1,
              255 * 255 * 255}

LookupInit ==
    /\ AudioIdle /\ HuffIdle /\ SetupIdle
    /\ UnitIdleBut("lookup")
    /\ l_entries \in LookupEntries
    /\ l_dimensions \in 0 .. MaxLookupDimensions
    /\ l_ret = None

Lookup1Values ==
    /\ l_ret = None
    /\ l_ret' = Some(lookup1_values(l_entries, l_dimensions))
    /\ UNCHANGED <<l_entries, l_dimensions>>
    /\ UNCHANGED <<audio_vars, huff_vars, setup_vars>>
    /\ UnitFrame("lookup")

LookupNext == Lookup1Values

SpecLookup == LookupInit /\ [][LookupNext]_vars

\* r^d <= n, with no power beyond n computed
RECURSIVE PowerAtMost(_, _, _, _)
PowerAtMost(r, d, n, acc) ==
    IF d = 0 THEN acc <= n
    ELSE IF r = 0 THEN TRUE
    ELSE IF acc > n \div r THEN FALSE
    ELSE PowerAtMost(r, d - 1, n, acc * r)

\* C23: for n below 2^24 and d >= 1, lookup1_values(n, d) returns the
\* greatest r with r^d <= n, that is r^d <= n < (r + 1)^d, and neither
\* overflows nor panics on the way
C23_Lookup1IsRoot ==
    (l_ret # None /\ l_dimensions >= 1 /\ l_entries < Pow2(24))
    => /\ l_ret[1].kind = "Ok"
       /\ l_ret[1].val[1] < Pow2(8)
       /\ LET r == l_ret[1].val[1] * Half + l_ret[1].val[2]
          IN  /\ PowerAtMost(r, l_dimensions, l_entries, 1)
              /\ ~PowerAtMost(r + 1, l_dimensions, l_entries, 1)

\* the greatest count of 24 bits has the cube root 255: the search went
\* through the bits of 1625 and cubes near 2^32 were computed
C23_Witness ==
    /\ l_ret # None
    /\ l_entries = Pow2(24) - 1
    /\ l_dimensions = 3
    /\ l_ret[1] = ExpOk(u32_of(255))

\* the low-order bits of byte, least significant first, spell the codeword c
Begins(byte, c) ==
    \A k \in 0 .. c.len - 1 : Shr(byte, k) % 2 = Shr(c.bits, c.len - 1 - k) % 2

\* C24: on every tree load_from_array builds, every peeked byte whose
\* low-order bits begin with a codeword of length L <= 8 has the entry
\* (L, entry) in the 256-entry peek table, so that read_huffman decodes it
\* with the one lookup and no walk of the tree
C24_PeekTableResolves ==
    (Loaded /\ (IF h_tree = None THEN FALSE ELSE h_tree[1].kind = "Ok"))
    => \A c \in RefCodewords(h_lengths, 1, {}) : \A byte \in 0 .. U8Max :
          (c.len <= 8 /\ Begins(byte, c))
          => h_tree[1].unrolled_entries[byte] = HasEntry(c.len, c.entry)

\* the call read the framing, the floors and the residues and came to
\* the overlap-add stage
ReachedOverlap == Decoded /\ ret[1].stage \in {"overlap", "done"}

\* the length of the window slope the block selects: its own half, or for
\* a long block after a short one the half of the short block
ClaimSlope ==
    IF ~ClaimLong THEN ClaimShortSize \div 2
    ELSE IF ClaimPrevFlag THEN ClaimLongSize \div 2
    ELSE ClaimShortSize \div 2

\* C25: for any sequence of packets decoded against one ident and setup,
\* the overlap-add stage never panics (no index outside the block or the
\* window slope, no failed channel-count assertion): it returns
\* AudioBadFormat exactly when the stored previous right half is longer
\* than the selected window slope, and otherwise completes
C25_OverlapNeverPanics ==
    ReachedOverlap =>
        /\ ret[1].kind # "Panic"
        /\ (ret[1].kind = "Err" /\ ret[1].err = "AudioBadFormat")
              <=> (~is_empty(pwr_in) /\ \E c \in Chans : pwr_in[1][c] > ClaimSlope)
        /\ ret[1].kind = "Err" \/ ret[1].stage = "done"

\* a long block announced a long successor, a short block follows: the
\* previous right half is longer than the slope of the short window
C25_Witness ==
    /\ ReachedOverlap
    /\ ~is_empty(pwr_in)
    /\ ident.blocksize_0 < ident.blocksize_1
    /\ ~ClaimLong
    /\ pwr_in[1][1] = ClaimLongSize \div 2
    /\ ret[1].kind = "Err"
    /\ ret[1].err = "AudioBadFormat"

\* a long block between a short and a long one is overlapped with the
\* short previous half
C25_WitnessCompletes ==
    /\ ReachedOverlap
    /\ ~is_empty(pwr_in)
    /\ ident.blocksize_0 < ident.blocksize_1
    /\ ClaimLong
    /\ ~ClaimPrevFlag
    /\ ClaimNextFlag
    /\ pwr_in[1][1] = ClaimShortSize \div 2
    /\ ret[1].kind = "Ok"

\* ------------------------------------------------------------------
\* audio.rs: the window geometry of one block, for every legal pair of
\* block size exponents (SpecWindow).
\* ------------------------------------------------------------------
\* previous_next_window_flag: None for a short block, the two flags read
\* for a long one
WindowFlags(mode_blockflag) ==
    IF mode_blockflag THEN { Some(<<p, q>>) : p \in BOOLEAN, q \in BOOLEAN }
    ELSE {None}

WindowBlocks ==
    { b \in [blocksize_0 : MinBlocksize .. MaxBlocksize,
             blocksize_1 : MinBlocksize .. MaxBlocksize,
             mode_blockflag : BOOLEAN,
             flag : WindowFlags(TRUE) \cup WindowFlags(FALSE)] :
        /\ b.blocksize_0 <= b.blocksize_1
        /\ b.flag \in WindowFlags(b.mode_blockflag) }

\* let n :u16 = 1 << bs
block_n(b) ==
    U16(Pow2(IF b.mode_blockflag THEN b.blocksize_1 ELSE b.blocksize_0))

block_windows(b) ==
    [left |-> left_window(b, b, b.flag, block_n(b)),
     right |-> right_window(b, b, b.flag, block_n(b)),
     count_left |-> count_left_window(b, b, b.flag, block_n(b)),
     count_right |-> count_right_window(b, b, b.flag, block_n(b))]

WindowInit ==
    /\ AudioIdle /\ HuffIdle /\ SetupIdle
    /\ UnitIdleBut("window")
    /\ w_block \in { Some(b) : b \in WindowBlocks }
    /\ w_ret = None

ComputeWindows ==
    /\ w_ret = None
    /\ w_ret' = Some(block_windows(w_block[1]))
    /\ UNCHANGED w_block
    /\ UNCHANGED <<audio_vars, huff_vars, setup_vars>>
    /\ UnitFrame("window")

WindowNext == ComputeWindows

SpecWindow == WindowInit /\ [][WindowNext]_vars

WBlockN == IF w_block[1].mode_blockflag THEN 2 ^ w_block[1].blocksize_1 ELSE 2 ^ w_block[1].blocksize_0
WShortN == 2 ^ w_block[1].blocksize_0
WPrevSet == IF w_block[1].flag = None THEN TRUE ELSE w_block[1].flag[1][1]
WNextSet == IF w_block[1].flag = None THEN TRUE ELSE w_block[1].flag[1][2]

\* C26: for a block of size n the left window spans [0, n/2) when the
\* block is short or its previous-window flag is set, and is otherwise
\* centred on n/2 with the width 2^bs0; the right window spans [n/2, n)
\* when the block is short or its next-window flag is set
C26_WindowsCentredOnHalf ==
    w_ret # None =>
        /\ WPrevSet => (w_ret[1].left.start = 0 /\ w_ret[1].left.end = WBlockN \div 2)
        /\ ~WPrevSet =>
              /\ w_ret[1].left.start = WBlockN \div 2 - WShortN \div 2
              /\ w_ret[1].left.end = WBlockN \div 2 + WShortN \div 2
        /\ WNextSet => (w_ret[1].right.start = WBlockN \div 2 /\ w_ret[1].right.end = WBlockN)

\* C26 as the code has it: without the previous-window flag the left
\* window is centred on n/4 and 2^bs0 / 2 wide, without the next-window
\* flag the right window is centred on 3n/4 and 2^bs0 / 2 wide;
\* get_decoded_sample_count uses the same windows
C26_WindowsCentredOnQuarters ==
    w_ret # None =>
        /\ WPrevSet => (w_ret[1].left.start = 0 /\ w_ret[1].left.end = WBlockN \div 2)
        /\ ~WPrevSet =>
              /\ w_ret[1].left.start = WBlockN \div 4 - WShortN \div 4
              /\ w_ret[1].left.end = WBlockN \div 4 + WShortN \div 4
        /\ WNextSet => (w_ret[1].right.start = WBlockN \div 2 /\ w_ret[1].right.end = WBlockN)
        /\ ~WNextSet =>
              /\ w_ret[1].right.start = 3 * (WBlockN \div 4) - WShortN \div 4
              /\ w_ret[1].right.end = 3 * (WBlockN \div 4) + WShortN \div 4
        /\ w_ret[1].count_left.start = w_ret[1].left.start
        /\ w_ret[1].count_left.end = w_ret[1].left.end
        /\ w_ret[1].count_right = w_ret[1].right

\* the longest block between two of the shortest
C26_Witness ==
    /\ w_ret # None
    /\ w_block[1].blocksize_0 = MinBlocksize
    /\ w_block[1].blocksize_1 = MaxBlocksize
    /\ w_block[1].mode_blockflag
    /\ ~WPrevSet
    /\ ~WNextSet
    /\ w_ret[1].left.start > 0
    /\ w_ret[1].right.end < WBlockN

\* ------------------------------------------------------------------
\* audio.rs: residue_packet_decode for residue type 2 at the block sizes
\* and channel counts of the format, by the lengths and indices it
\* computes (SpecInterleave).  The vectors are followed by index: the
\* element at position k of the inner function's result is called k.
\* ------------------------------------------------------------------
InterOk(len, at) == [kind |-> "Ok", len |-> len, at |-> at]
InterErr == [kind |-> "Err", len |-> 0, at |-> None]
InterPanic(msg) == [kind |-> "Panic", len |-> 0, at |-> msg]

\* cur_blocksize * ch as u16: a u16 product, which panics on overflow
\* when the build checks overflow and wraps when it does not
mul_u16(a, b, checked) ==
    IF a * b < Pow2(16) THEN Some(a * b)
    ELSE IF checked THEN None
    ELSE Some((a * b) % Pow2(16))

\* vectors.chunks(ch).map(|chunk| chunk[j]), element i: the chunks are
\* ch long but for the last one, which holds the remainder
chunk_at(len, ch, j, i) ==
    IF i * ch + j < len THEN Some(i * ch + j) ELSE None

chunk_count(len, ch) == (len + ch - 1) \div ch

\* whether some chunk[j] of the post decode step is out of bounds
chunks_all_full(len, ch) == len % ch = 0

\* the post decode step, then the element at position p of its result
deinterleaved(len, ch, p) ==
    IF ~chunks_all_full(len, ch)
    THEN InterPanic("index out of bounds")
    ELSE InterOk(chunk_count(len, ch) * ch,
                 IF p < chunk_count(len, ch) * ch
                 THEN chunk_at(len, ch, p \div chunk_count(len, ch),
                               p % chunk_count(len, ch))
                 ELSE None)

\* residue_packet_decode for resid.residue_type == 2
residue_2_decode(n, ch, to_decode_found, inner_ok, checked, p) ==
    IF ~to_decode_found THEN InterOk(ch * (n \div 2), None)
    ELSE LET size == mul_u16(n, ch, checked)
         IN  IF size = None
             THEN InterPanic("attempt to multiply with overflow")
             ELSE IF ~inner_ok THEN InterErr
             ELSE deinterleaved(size[1] \div 2, ch, p)

\* the positions looked at: the first and last value of a channel
InterleaveProbes(n, ch) ==
    { j * (n \div 2) + i : j \in {0, ch - 1}, i \in {0, n \div 2 - 1} }

InterleaveCalls ==
    { c \in [bs : MinBlocksize .. MaxBlocksize, ch : 1 .. U8Max,
             to_decode_found : BOOLEAN, inner_ok : BOOLEAN,
             checked : BOOLEAN, j : {"first", "last"}, i : {"first", "last"}] :
        (~c.to_decode_found) => (c.inner_ok /\ c.checked /\ c.j = "first" /\ c.i = "first") }

call_channel(c) == IF c.j = "first" THEN 0 ELSE c.ch - 1
call_index(c) == IF c.i = "first" THEN 0 ELSE Pow2(c.bs) \div 2 - 1

InterleaveInit ==
    /\ AudioIdle /\ HuffIdle /\ SetupIdle
    /\ UnitIdleBut("interleave")
    /\ d_call \in { Some(c) : c \in InterleaveCalls }
    /\ d_ret = None

ResiduePacketDecode2 ==
    /\ d_ret = None
    /\ LET c == d_call[1]
       IN  d_ret' = Some(residue_2_decode(U16(Pow2(c.bs)), c.ch,
                            c.to_decode_found, c.inner_ok, c.checked,
                            call_channel(c) * (Pow2(c.bs) \div 2) + call_index(c)))
    /\ UNCHANGED d_call
    /\ UNCHANGED <<audio_vars, huff_vars, setup_vars>>
    /\ UnitFrame("interleave")

InterleaveNext == ResiduePacketDecode2

SpecInterleave == InterleaveInit /\ [][InterleaveNext]_vars

\* C27: for a residue of type 2, a block of n = 2^bs values (bs 6..13)
\* and 1..255 channels, the interleaved length n * ch is computed
\* without 16 bit overflow: a decode the inner function accepts returns
\* ch * n/2 values, and value i of channel j is element i * ch + j of
\* the interleaved vector
C27_InterleavedLengthFits ==
    (d_ret # None /\ d_call[1].to_decode_found /\ d_call[1].inner_ok) =>
        /\ d_ret[1].kind = "Ok"
        /\ d_ret[1].len = d_call[1].ch * (2 ^ d_call[1].bs \div 2)
        /\ d_ret[1].at = Some(call_index(d_call[1]) * d_call[1].ch + call_channel(d_call[1]))

\* C27 where the product fits: n * ch < 2^16
C27_FitsBelow65536 ==
    (/\ d_ret # None /\ d_call[1].to_decode_found /\ d_call[1].inner_ok
     /\ 2 ^ d_call[1].bs * d_call[1].ch < 65536) =>
        /\ d_ret[1].kind = "Ok"
        /\ d_ret[1].len = d_call[1].ch * (2 ^ d_call[1].bs \div 2)
        /\ d_ret[1].at = Some(call_index(d_call[1]) * d_call[1].ch + call_channel(d_call[1]))

\* ------------------------------------------------------------------
\* header.rs, audio.rs: floor 0, by the integer arithmetic and the
\* indices of floor_zero_decode and floor_zero_compute_curve
\* (SpecFloorZero).
\* ------------------------------------------------------------------
\* floor0_amplitude_bits is read with read_u6
MaxAmplitudeBits == 63
MaxFloorZeroDimensions == 2
I32Max == 2147483647

Floor0Ok(count, top) == [kind |-> "Ok", count |-> count, top |-> top, msg |-> ""]
Floor0Unused(count) == [kind |-> "Unused", count |-> count, top |-> -1, msg |-> ""]
Floor0Panic(count, msg) == [kind |-> "Panic", count |-> count, top |-> -1, msg |-> msg]

\* the floor0 fields read_floor takes from the packet: read_u8 and
\* read_u6 cannot fail the test amplitude_bits > 64
read_floor_0(order, amplitude_bits) ==
    IF amplitude_bits > 64 THEN None
    ELSE Some([floor0_order |-> order, floor0_amplitude_bits |-> amplitude_bits])

\* coefficients.len() when floor_zero_decode returns Ok: vectors of
\* `dimensions` values are read until the order is reached
RECURSIVE floor_zero_decode_count(_, _, _)
floor_zero_decode_count(order, dimensions, len) ==
    IF dimensions + len < order
    THEN floor_zero_decode_count(order, dimensions, len + dimensions)
    ELSE IF len < order /\ order <= len + dimensions THEN order
    ELSE len + dimensions

\* (1 << floor0_amplitude_bits) - 1 on the i32 the literal 1 is: None
\* where the build panics
amplitude_range(bits, checked) ==
    IF bits >= 32 /\ checked THEN None
    ELSE IF bits % 32 = 31
    THEN (IF checked THEN None ELSE Some(I32Max))
    ELSE Some(Pow2(bits % 32) - 1)

\* floor0_order as usize - k: None where the build panics, wrapped
\* around otherwise
usize_sub(a, k, checked) ==
    IF a >= k THEN Some([wrapped |-> FALSE, val |-> a - k])
    ELSE IF checked THEN None
    ELSE Some([wrapped |-> TRUE, val |-> a - k])

\* the greatest index of cos_coefficients the two loops read, -1 for
\* none, given the two subtractions; wrapped around, a border is far
\* beyond every vector
top_index(p_sub, q_sub, count) ==
    IF p_sub.wrapped \/ q_sub.wrapped THEN count
    ELSE Max(2 * (p_sub.val \div 2) + 1, 2 * (q_sub.val \div 2))

\* floor_zero_compute_curve for n > 0
floor_zero_compute_curve(count, fl, checked) ==
    LET range == amplitude_range(fl.floor0_amplitude_bits, checked)
        odd == fl.floor0_order % 2 = 1
        p_sub == usize_sub(fl.floor0_order, IF odd THEN 3 ELSE 2, checked)
        q_sub == usize_sub(fl.floor0_order, IF odd THEN 1 ELSE 2, checked)
    IN  IF fl.floor0_amplitude_bits >= 32 /\ checked
        THEN Floor0Panic(count, "attempt to shift left with overflow")
        ELSE IF range = None
        THEN Floor0Panic(count, "attempt to subtract with overflow")
        ELSE IF p_sub = None \/ q_sub = None
        THEN Floor0Panic(count, "attempt to subtract with overflow")
        ELSE IF top_index(p_sub[1], q_sub[1], count) >= count
        THEN Floor0Panic(count, "index out of bounds")
        ELSE Floor0Ok(count, top_index(p_sub[1], q_sub[1], count))

\* floor_zero_decode, then the curve of a channel whose floor is used
floor_zero(fl, dimensions, amplitude_zero, checked) ==
    IF amplitude_zero \/ fl.floor0_amplitude_bits = 0 THEN Floor0Unused(0)
    ELSE floor_zero_compute_curve(
            floor_zero_decode_count(fl.floor0_order, dimensions, 0), fl, checked)

FloorZeroCalls ==
    [order : 0 .. U8Max, amplitude_bits : 0 .. MaxAmplitudeBits,
     dimensions : 1 .. MaxFloorZeroDimensions,
     amplitude_zero : BOOLEAN, checked : BOOLEAN]

FloorZeroInit ==
    /\ AudioIdle /\ HuffIdle /\ SetupIdle
    /\ UnitIdleBut("floorzero")
    /\ z_call \in { Some(c) : c \in FloorZeroCalls }
    /\ z_ret = None

FloorZero ==
    /\ z_ret = None
    /\ LET c == z_call[1]
           fl == read_floor_0(c.order, c.amplitude_bits)
       IN  /\ fl # None
           /\ z_ret' = Some(floor_zero(fl[1], c.dimensions, c.amplitude_zero, c.checked))
    /\ UNCHANGED z_call
    /\ UNCHANGED <<audio_vars, huff_vars, setup_vars>>
    /\ UnitFrame("floorzero")

FloorZeroNext == FloorZero

SpecFloorZero == FloorZeroInit /\ [][FloorZeroNext]_vars

\* C28: for every floor 0 read_floor accepts (order 0..255, amplitude
\* bits 0..63), computing the curve of a used floor neither overflows
\* nor underflows in (1 << amplitude_bits) - 1 and in the loop bounds
\* (order - 3)/2, (order - 1)/2, (order - 2)/2, and every coefficient
\* index read is below the number of decoded coefficients
C28_FloorZeroArithmeticSafe ==
    (z_ret # None /\ z_ret[1].kind # "Unused") =>
        /\ z_ret[1].kind = "Ok"
        /\ z_ret[1].top < z_ret[1].count

\* C28 for orders of 2 and more and fewer than 31 amplitude bits
C28_SafeFromOrderTwo ==
    (/\ z_ret # None /\ z_ret[1].kind # "Unused"
     /\ z_call[1].order >= 2 /\ z_call[1].amplitude_bits < 31) =>
        /\ z_ret[1].kind = "Ok"
        /\ z_ret[1].top < z_ret[1].count
        /\ z_ret[1].count = z_call[1].order

\* ------------------------------------------------------------------
\* header.rs, audio.rs: a codebook with its dimensions, the pass books
\* of a residue read against it, and the step of a partition of residue
\* type 0 (SpecPassBook).
\* ------------------------------------------------------------------
MaxPassDimensions == 2

PassPanic(msg) == [kind |-> "Panic", msg |-> msg]
PassErr(e) == [kind |-> "Err", msg |-> e]
PassOk(step) == [kind |-> "Ok", msg |-> "", step |-> step]

\* codebook_lookup_values, then the length of codebook_vq_lookup_vec;
\* None where lookup1_values panics
lookup_vec_len(codebook_lookup_type, codebook_entries, codebook_dimensions) ==
    IF codebook_lookup_type = 1
         /\ lookup1_values(codebook_entries, codebook_dimensions).kind # "Ok"
    THEN None
    ELSE Some(codebook_entries * codebook_dimensions)

\* read_codebook with the dimensions it reads as a u16 and stores
read_codebook_dimensions(codebook_dimensions, codebook_codeword_lengths, codebook_lookup_type) ==
    LET cb == read_codebook(SyncPattern, codebook_codeword_lengths,
                            codebook_lookup_type)
    IN  IF ~cb.ok THEN cb
        ELSE HeaderOk([codebook_dimensions |-> codebook_dimensions,
                       codebook_vq_lookup_vec |->
                           IF codebook_lookup_type = 0 THEN None
                           ELSE lookup_vec_len(codebook_lookup_type,
                                    Len(codebook_codeword_lengths),
                                    codebook_dimensions)])

\* residue_packet_read_partition, residue type 0: the step
partition_step(resid, codebook) ==
    IF codebook.codebook_dimensions = 0
    THEN PassPanic("attempt to divide by zero")
    ELSE PassOk(resid.residue_partition_size \div codebook.codebook_dimensions)

PassVals == {0, 1, 64, 129}

\* the bytes read_book reads: one for every pass of 0..6 in vals_used
PassEntries(vals_used) ==
    { [i \in 0 .. 6 |-> IF i \in ReadPasses(vals_used) THEN e ELSE 0] :
        e \in {0, 1} }

PassCalls ==
    UNION { [codebook_dimensions : 0 .. MaxPassDimensions,
             codebook_codeword_lengths : CodebookArrays,
             codebook_lookup_type : 0 .. 3,
             vals_used : {v},
             entries : PassEntries(v),
             pass : {0, 6, 7},
             residue_partition_size : {4}] : v \in PassVals }

PassBookInit ==
    /\ AudioIdle /\ HuffIdle /\ SetupIdle
    /\ UnitIdleBut("passbook")
    /\ p_pc = "codebook"
    /\ p_call \in { Some(c) : c \in PassCalls }
    /\ p_codebooks = <<>>
    /\ p_book = None
    /\ p_ret = None

PassBookFrame ==
    /\ UNCHANGED p_call
    /\ UNCHANGED <<audio_vars, huff_vars, setup_vars>>
    /\ UnitFrame("passbook")

\* read_header_setup reads the codebook
ReadCodebookDimensions ==
    /\ p_pc = "codebook"
    /\ LET c == p_call[1]
           cb == read_codebook_dimensions(c.codebook_dimensions,
                     c.codebook_codeword_lengths, c.codebook_lookup_type)
       IN  IF ~cb.ok
           THEN /\ p_pc' = "done" /\ p_ret' = Some(PassErr(cb.err))
                /\ UNCHANGED <<p_codebooks, p_book>>
           ELSE /\ p_pc' = "book" /\ p_codebooks' = <<cb.val>>
                /\ UNCHANGED <<p_book, p_ret>>
    /\ PassBookFrame

\* read_residue reads the books of a class
ReadPassBook ==
    /\ p_pc = "book"
    /\ LET c == p_call[1]
           book == read_book(c.vals_used, c.entries, p_codebooks)
       IN  IF ~book.ok
           THEN /\ p_pc' = "done" /\ p_ret' = Some(PassErr(book.err))
                /\ UNCHANGED p_book
           ELSE /\ p_pc' = "partition" /\ p_book' = Some(book.val)
                /\ UNCHANGED p_ret
    /\ UNCHANGED p_codebooks
    /\ PassBookFrame

\* a partition of a residue of type 0 in the pass p_call[1].pass
ReadPartitionStep ==
    /\ p_pc = "partition"
    /\ LET c == p_call[1]
           vqbook_opt == ResidueBook_get_val(p_book[1], c.pass)
       IN  p_ret' = Some(IF vqbook_opt = None THEN PassOk(0)
                         ELSE partition_step(c, p_codebooks[vqbook_opt[1] + 1]))
    /\ p_pc' = "done"
    /\ UNCHANGED <<p_codebooks, p_book>>
    /\ PassBookFrame

PassBookNext == ReadCodebookDimensions \/ ReadPassBook \/ ReadPartitionStep

SpecPassBook == PassBookInit /\ [][PassBookNext]_vars

\* C29: every codebook a parsed setup lets a residue use as a pass book
\* has at least one dimension, so the step partition_size /
\* codebook_dimensions of residue type 0 never divides by zero
C29_PassBooksHaveDimensions ==
    /\ p_book # None =>
          \A i \in 0 .. 7 :
              ResidueBook_get_val(p_book[1], i) # None =>
                  p_codebooks[ResidueBook_get_val(p_book[1], i)[1] + 1].codebook_dimensions >= 1
    /\ p_ret # None => p_ret[1].kind # "Panic"

\* what read_book does see to: a pass book of the passes 0..6 has a
\* value mapping
C29_PassBooksHaveLookup ==
    p_book # None =>
        \A i \in 0 .. 6 :
            ResidueBook_get_val(p_book[1], i) # None =>
                p_codebooks[ResidueBook_get_val(p_book[1], i)[1] + 1].codebook_vq_lookup_vec # None

\* ------------------------------------------------------------------
\* header.rs: step 3 of read_codebook, the codeword lengths, one loop
\* iteration at a time (SpecLengths).
\* ------------------------------------------------------------------
MaxLengthEntries == 2
\* read_u5() + 1
MaxCodewordLength == 32

LengthsOk(lengths) == [kind |-> "Ok", lengths |-> lengths]
LengthsErr(e) == [kind |-> "Err", lengths |-> e]
LengthsPanic(msg) == [kind |-> "Panic", lengths |-> msg]

LengthsAt(ordered, sparse, current_entry, current_length, lengths, flags) ==
    [ordered |-> ordered, sparse |-> sparse, current_entry |-> current_entry,
     current_length |-> current_length, lengths |-> lengths, flags |-> flags]

\* the length of one entry of a codebook that is not ordered
unordered_length(sparse, flag, u5) ==
    IF sparse THEN (IF flag THEN u5 + 1 ELSE 0) ELSE u5 + 1

\* for _ in current_entry .. current_entry + number
RECURSIVE push_run(_, _, _)
push_run(lengths, number, current_length) ==
    IF number = 0 THEN lengths
    ELSE push_run(Append(lengths, current_length), number - 1, current_length)

\* current_length += 1 on a u8: None where the build panics
next_length(current_length, checked) ==
    IF current_length < U8Max THEN Some(current_length + 1)
    ELSE IF checked THEN None
    ELSE Some(0)

\* the numbers read_dyn_u32(ilog(codebook_entries - current_entry)) can
\* return; runs of no entry are followed before the first entry only
RunNumbers(codebook_entries, current_entry) ==
    { x \in 0 .. Pow2(ilog(codebook_entries - current_entry)) - 1 :
        x = 0 => current_entry = 0 }

LengthsInit ==
    /\ AudioIdle /\ HuffIdle /\ SetupIdle
    /\ UnitIdleBut("lengths")
    /\ k_call \in { Some(c) : c \in [codebook_entries : 0 .. MaxLengthEntries,
                                     checked : BOOLEAN] }
    /\ k_loop = None
    /\ k_ret = None

LengthsFrame ==
    /\ UNCHANGED k_call
    /\ UNCHANGED <<audio_vars, huff_vars, setup_vars>>
    /\ UnitFrame("lengths")

\* the ordered flag, then the sparse flag or the first length
BeginLengths ==
    /\ k_loop = None
    /\ k_ret = None
    /\ \E ordered \in BOOLEAN, sparse \in BOOLEAN, u5 \in 0 .. MaxCodewordLength - 1 :
         /\ ordered => ~sparse
         /\ ~ordered => u5 = 0
         /\ k_loop' = Some(LengthsAt(ordered, sparse, 0,
                                     IF ordered THEN u5 + 1 ELSE 0, <<>>, <<>>))
    /\ UNCHANGED k_ret
    /\ LengthsFrame

\* one entry of a codebook that is not ordered
ReadLength ==
    /\ k_loop # None
    /\ k_ret = None
    /\ ~k_loop[1].ordered
    /\ k_loop[1].current_entry < k_call[1].codebook_entries
    /\ \E flag \in BOOLEAN, u5 \in {0, MaxCodewordLength - 1}, eop \in BOOLEAN :
         /\ (~k_loop[1].sparse) => flag
         /\ (~flag) => u5 = 0
         /\ IF eop
            THEN k_ret' = Some(LengthsErr("EndOfPacket")) /\ UNCHANGED k_loop
            ELSE /\ k_loop' = Some([k_loop[1] EXCEPT
                        !.current_entry = @ + 1,
                        !.lengths = Append(@, unordered_length(k_loop[1].sparse, flag, u5)),
                        !.flags = Append(@, flag)])
                 /\ UNCHANGED k_ret
    /\ LengthsFrame

\* one iteration of the loop of an ordered codebook
ReadRun ==
    /\ k_loop # None
    /\ k_ret = None
    /\ k_loop[1].ordered
    /\ k_loop[1].current_entry < k_call[1].codebook_entries
    /\ \E number \in RunNumbers(k_call[1].codebook_entries, k_loop[1].current_entry),
          eop \in BOOLEAN :
         LET lp == k_loop[1]
             length == next_length(lp.current_length, k_call[1].checked)
         IN  IF eop
             THEN k_ret' = Some(LengthsErr("EndOfPacket")) /\ UNCHANGED k_loop
             ELSE IF length = None
             THEN /\ k_ret' = Some(LengthsPanic("attempt to add with overflow"))
                  /\ k_loop' = Some([lp EXCEPT
                        !.lengths = push_run(@, number, lp.current_length),
                        !.current_entry = @ + number])
             ELSE /\ k_loop' = Some([lp EXCEPT
                        !.lengths = push_run(@, number, lp.current_length),
                        !.current_entry = @ + number,
                        !.current_length = length[1]])
                  /\ IF lp.current_entry + number > k_call[1].codebook_entries
                     THEN k_ret' = Some(LengthsErr("HeaderBadFormat"))
                     ELSE UNCHANGED k_ret
    /\ LengthsFrame

\* the loop is left: the lengths go to load_from_array
LengthsRead ==
    /\ k_loop # None
    /\ k_ret = None
    /\ ~(k_loop[1].current_entry < k_call[1].codebook_entries)
    /\ k_ret' = Some(LengthsOk(k_loop[1].lengths))
    /\ UNCHANGED k_loop
    /\ LengthsFrame

LengthsNext == BeginLengths \/ ReadLength \/ ReadRun \/ LengthsRead

SpecLengths == LengthsInit /\ [][LengthsNext]_vars

\* C30: every codeword length read_codebook passes to the Huffman
\* construction is in 0..32, 0 only for the unused entries of a sparse
\* codebook, and in ordered mode the running length counter never
\* exceeds 32 and never overflows the u8
C30_CodewordLengthsInRange ==
    /\ (k_ret # None /\ k_ret[1].kind = "Ok") =>
          \A i \in 1 .. Len(k_ret[1].lengths) :
              /\ k_ret[1].lengths[i] \in 0 .. 32
              /\ k_ret[1].lengths[i] = 0 =>
                    (~k_loop[1].ordered /\ k_loop[1].sparse /\ ~k_loop[1].flags[i])
    /\ (k_loop # None /\ k_loop[1].ordered) => k_loop[1].current_length <= 32
    /\ k_ret # None => k_ret[1].kind # "Panic"

\* C30 for the codebooks that are not ordered
C30_UnorderedLengthsInRange ==
    (k_ret # None /\ k_ret[1].kind = "Ok" /\ ~k_loop[1].ordered) =>
        /\ Len(k_ret[1].lengths) = k_call[1].codebook_entries
        /\ \A i \in 1 .. Len(k_ret[1].lengths) :
              /\ k_ret[1].lengths[i] \in 0 .. 32
              /\ k_ret[1].lengths[i] = 0 =>
                    (k_loop[1].sparse /\ ~k_loop[1].flags[i])

\* an ordered codebook whose lengths go beyond 32
C30_LengthBeyond32 ==
    /\ k_ret # None
    /\ k_ret[1].kind = "Ok"
    /\ \E i \in 1 .. Len(k_ret[1].lengths) : k_ret[1].lengths[i] > 32

\* the counter of an ordered codebook overflows
C30_CounterOverflows ==
    /\ k_ret # None
    /\ k_ret[1].kind = "Panic"

====
